---- MODULE Spec2Model ----
(***************************************************************************)
(* A model of tbp-viz: the metadata store's load / reconcile / fetch /     *)
(* persist sequence (Data::new), the IGDB catalog client (IgdbRequestor),  *)
(* the resource cache (ResourceRequestor) and the process entry (main).    *)
(***************************************************************************)
EXTENDS Integers, Sequences, FiniteSets

(***************************************************************************)
(* Bounds of the model.                                                    *)
(***************************************************************************)
MaxListLen == 2      \* longest snapshot (List) of a history
MaxDates == 2        \* most observation dates of a history
MaxFileLen == 1      \* most records of a metadata file present at start
MaxRespLen == 1      \* most records of a catalog answer
MaxCalls == 2        \* most games() calls made on one client by the driver

(***************************************************************************)
(* GameId (data/mod.rs:41-45): Igdb(u32) | Other(String) | None.           *)
(***************************************************************************)
Igdb(n) == [kind |-> "Igdb", num |-> n, str |-> ""]
Other(s) == [kind |-> "Other", num |-> 0, str |-> s]
None == [kind |-> "None", num |-> 0, str |-> ""]
GameId == {Igdb(1), Other("a"), None}

\* matches!(id, GameId::Igdb(_))
IsIgdb(id) == id.kind = "Igdb"

\* Sequences over S of length at most n
SeqUpTo(S, n) == UNION {[1..k -> S] : k \in 0..n}

Range(s) == {s[i] : i \in DOMAIN s}

\* HashMap::values, HashMap::iter: the iteration orders of a map with the
\* keys D, which HashMap leaves open
Orders(D) ==
    {o \in [1..Cardinality(D) -> D] : \A i, j \in DOMAIN o : o[i] = o[j] => i = j}

\* Number of occurrences of x in the sequence s
Count(s, x) == Cardinality({i \in DOMAIN s : s[i] = x})

(***************************************************************************)
(* Meta: a record of the store.  Only the identity and the origin of the   *)
(* record (read from disk, or returned by the catalog) are kept.           *)
(***************************************************************************)
Meta(id, origin) == [id |-> id, origin |-> origin]

\* A collection in which the first record of an identity is kept
Collect_FirstWins(vec) ==
    [id \in {vec[i].id : i \in DOMAIN vec} |->
        vec[CHOOSE i \in DOMAIN vec :
                /\ vec[i].id = id
                /\ \A j \in DOMAIN vec : vec[j].id = id => i <= j]]

\* serde_metas::deserialize and IgdbRequestor::games: a list of records is
\* collected into a map keyed by the embedded identity; a later record with
\* the same identity replaces an earlier one.
Collect(vec) ==
    [id \in {vec[i].id : i \in DOMAIN vec} |->
        vec[CHOOSE i \in DOMAIN vec :
                /\ vec[i].id = id
                /\ \A j \in DOMAIN vec : vec[j].id = id => j <= i]]

\* A merge that files one new record under every key
Extend_OneRecord(old, new) ==
    [id \in DOMAIN old \cup DOMAIN new |->
        IF DOMAIN new # {} THEN new[CHOOSE k \in DOMAIN new : TRUE] ELSE old[id]]

\* HashMap::extend: every pair of new is inserted, replacing the value of a
\* key that is already present.
Extend(old, new) ==
    [id \in DOMAIN old \cup DOMAIN new |->
        IF id \in DOMAIN new THEN new[id] ELSE old[id]]

\* Metas::default()
EmptyMetas == [id \in {} |-> Meta(None, "disk")]

(***************************************************************************)
(* State.                                                                  *)
(***************************************************************************)
VARIABLES
    \* --- the files and the environment the process starts with
    list_file,       \* list.json, parsed: date -> List (Lists)
    meta_file,       \* meta.json: Absent, or the list of records it holds
    template_file,   \* meta_template.json: Absent, or its list of records
    env,             \* the environment variables that are set
    \* --- main and Data::new
    mpc,             \* position of main
    npc,             \* position of Data::new
    lists,           \* Data::new: lists
    metas,           \* Data::new: metas (key -> Meta)
    missing_metas,   \* Data::new: missing_metas, the ids passed to games()
    \* --- IgdbRequestor
    client_id,
    client_secret,
    access_token,    \* Option<String>: NoToken or the token
    ipc,             \* position of the client inside games()
    who,             \* which function is inside request(): "login" | "games"
    request,         \* the request held by request() (and its clone)
    resp,            \* the response held between two awaits
    games_ids,       \* the ids argument of the games() call in progress
    games_ret,       \* what the last games() call returned
    calls,           \* games() calls made so far on this client
    net,             \* every request executed so far: [req, status, at]
    now,             \* seconds slept so far (tokio::time::sleep)
    \* --- ResourceRequestor and the tasks that call get()
    items,           \* task -> the urls the task may ask for
    quota,           \* the number of get() calls one task makes at most
    faults,          \* the failures the network and the disk may show
    rpc,             \* task -> position inside get()
    cur,             \* task -> the get() call in progress
    hist,            \* task -> the get() calls it has completed
    sem,             \* permits available in the semaphore
    waiters,         \* tasks queued in sem.acquire(), first come first
    res_dir,         \* the cache on disk: path -> bytes
    fetched,         \* request url -> number of times it was requested
    \* --- join_local and the group of tasks it waits for
    joined,          \* the tasks whose result join_next() has yielded
    join_ret,        \* what join_local returned
    \* --- a query of the analytics layer (Data::extrema, Data::igdb_diffs)
    apc,             \* position of the query
    arg,             \* its argument
    rank,            \* igdb_diffs: igdb_list
    out              \* its result

fileVars == <<list_file, meta_file, template_file, env>>
newVars == <<mpc, npc, lists, metas, missing_metas>>
igdbVars == <<client_id, client_secret, access_token, ipc, who, request, resp,
              games_ids, games_ret, calls, net, now>>
resVars == <<items, quota, faults, rpc, cur, hist, sem, waiters, res_dir, fetched>>
joinVars == <<joined, join_ret>>
fnVars == <<apc, arg, rank, out>>

Absent == [present |-> FALSE, vec |-> <<>>]
File(vec) == [present |-> TRUE, vec |-> vec]

\* Option<String>: None is 0; the provider issues a fresh token at every
\* exchange, named by the position of the exchange among the requests
NoToken == 0

(***************************************************************************)
(* IgdbRequestor (request/igdb.rs).                                        *)
(***************************************************************************)
COOLDOWN == 60
TOO_MANY_REQUESTS == 429

\* What the provider can answer: a status, or no answer at all ("neterr":
\* client.execute() returns Err).
Statuses == {200, 304, 429, 500}
NetErr == 0

\* StatusCode::is_success
IsSuccess(st) == st >= 200 /\ st < 300
\* Response::error_for_status is Err exactly for 4xx and 5xx
IsClientOrServerError(st) == st >= 400 /\ st < 600

\* u32::to_string for the ids of GameId
U32ToString(n) == CASE n = 1 -> "1" [] n = 2 -> "2" [] OTHER -> "0"
\* impl Display for GameId (data/mod.rs:47-55)
GameIdToString(id) ==
    CASE id.kind = "Igdb" -> U32ToString(id.num)
      [] id.kind = "Other" -> id.str
      [] OTHER -> ""

NoBody == [valid |-> FALSE, token |-> NoToken, vec |-> <<>>]
NoResp == [status |-> NetErr, body |-> NoBody]
NoRequest == [method |-> "", url |-> "", query |-> <<>>, bearer |-> NoToken,
              header |-> "", ids |-> <<>>, limit |-> 0]

TokenUrl == "https://id.twitch.tv/oauth2/token"
GamesUrl == "https://api.igdb.com/v4/games"

\* login(): the token request (igdb.rs:55-63)
LoginRequest(cid, secret) ==
    [method |-> "POST", url |-> TokenUrl,
     query |-> <<"client_credentials", cid, secret>>, bearer |-> NoToken,
     header |-> "", ids |-> <<>>, limit |-> 0]

\* games(): the batch request (igdb.rs:85-91): the ids joined, limit = len
GamesRequest(token, cid, ids) ==
    [method |-> "POST", url |-> GamesUrl,
     query |-> <<>>, bearer |-> token, header |-> cid,
     ids |-> [i \in DOMAIN ids |-> GameIdToString(ids[i])], limit |-> Len(ids)]

\* The bodies a provider can attach to an answer that the caller will decode.
LoginBodies ==
    {NoBody, [valid |-> TRUE, token |-> Len(net) + 1, vec |-> <<>>]}
GamesBodies ==
    {NoBody} \cup
    {[valid |-> TRUE, token |-> NoToken, vec |-> v] :
        v \in SeqUpTo({Meta(id, "api") : id \in GameId}, MaxRespLen)}
Bodies(w) == IF w = "login" THEN LoginBodies ELSE GamesBodies

Err == [ok |-> FALSE, metas |-> EmptyMetas]
Ok(m) == [ok |-> TRUE, metas |-> m]
NoRet == [ok |-> FALSE, metas |-> EmptyMetas]

\* A clone that loses the body of the request
TryClone_NoBody(req) == [req EXCEPT !.ids = <<>>, !.limit = 0]

\* request.try_clone() (igdb.rs:35): both requests hold their body in
\* memory, so the clone is Some and equal to the request
TryClone(req) == req

\* The log of the requests: which request, sent by which games() call, by
\* the first or the second execute() of request(), what answered it and
\* when
Sent(req, st, try, valid) ==
    Append(net, [req |-> req, call |-> calls, try |-> try, status |-> st,
                 valid |-> valid, at |-> now])

\* games() that exchanges a token at every call, cached token or not
GamesEnter_Relogin(ids) ==
    /\ games_ids' = ids
    /\ games_ret' = NoRet
    /\ calls' = calls + 1
    /\ resp' = NoResp
    /\ ipc' = "exec"
    /\ who' = "login"
    /\ request' = LoginRequest(client_id, client_secret)

\* games() that sends the batch request with whatever token field it has
GamesEnter_NoLogin(ids) ==
    /\ games_ids' = ids
    /\ games_ret' = NoRet
    /\ calls' = calls + 1
    /\ resp' = NoResp
    /\ ipc' = "exec"
    /\ who' = "games"
    /\ request' = GamesRequest(access_token, client_id, ids)

\* games() (igdb.rs:75-91), up to its first await: with a cached token the
\* batch request is built and handed to request(); without one, login()
\* builds the token request and hands it to request().
GamesEnter(ids) ==
    /\ games_ids' = ids
    /\ games_ret' = NoRet
    /\ calls' = calls + 1
    /\ resp' = NoResp
    /\ ipc' = "exec"
    /\ IF access_token # NoToken
         THEN /\ who' = "games"
              /\ request' = GamesRequest(access_token, client_id, ids)
         ELSE /\ who' = "login"
              /\ request' = LoginRequest(client_id, client_secret)

\* games() returns Err: the `?` of login() or of request()
GamesFail ==
    /\ ipc' = "ret"
    /\ games_ret' = Err
    /\ resp' = NoResp
    /\ request' = NoRequest
    /\ UNCHANGED <<access_token, who>>

\* request() returns Ok(resp) to login() or games(), which awaits the body
RequestOk(r) ==
    /\ ipc' = "json"
    /\ resp' = r
    /\ request' = NoRequest
    /\ UNCHANGED <<access_token, who, games_ret>>

\* request(), first client.execute(request).await (igdb.rs:35-47)
Execute ==
    /\ ipc = "exec"
    /\ \/ \* the transport fails: `?`
          /\ net' = Sent(request, NetErr, 1, FALSE)
          /\ GamesFail
       \/ \E st \in Statuses :
            IF IsSuccess(st)
              THEN \E b \in Bodies(who) :
                     /\ net' = Sent(request, st, 1, b.valid)
                     /\ RequestOk([status |-> st, body |-> b])
              ELSE /\ net' = Sent(request, st, 1, FALSE)
                   /\ IF st # TOO_MANY_REQUESTS
                        THEN IF IsClientOrServerError(st)
                               THEN GamesFail          \* error_for_status()?
                               ELSE /\ ipc' = "panic"  \* unreachable!()
                                    /\ UNCHANGED <<access_token, who, request,
                                                   resp, games_ret>>
                        ELSE /\ ipc' = "sleep"
                             /\ request' = TryClone(request)
                             /\ UNCHANGED <<access_token, who, resp, games_ret>>
    /\ UNCHANGED <<client_id, client_secret, games_ids, calls, now>>
    /\ UNCHANGED <<fileVars, newVars, resVars>>
    /\ UNCHANGED <<joinVars, fnVars>>

\* request(), tokio::time::sleep(Duration::from_secs(60)).await (igdb.rs:48)
Sleep ==
    /\ ipc = "sleep"
    /\ now' = now + COOLDOWN
    /\ ipc' = "retry"
    /\ UNCHANGED <<client_id, client_secret, access_token, who, request, resp,
                   games_ids, games_ret, calls, net>>
    /\ UNCHANGED <<fileVars, newVars, resVars>>
    /\ UNCHANGED <<joinVars, fnVars>>

\* request(), second client.execute(request).await?.error_for_status()?
\* (igdb.rs:49-50)
Retry ==
    /\ ipc = "retry"
    /\ \/ /\ net' = Sent(request, NetErr, 2, FALSE)
          /\ GamesFail
       \/ \E st \in Statuses :
            IF IsClientOrServerError(st)
              THEN /\ net' = Sent(request, st, 2, FALSE)
                   /\ GamesFail
              ELSE \E b \in Bodies(who) :
                     /\ net' = Sent(request, st, 2, b.valid)
                     /\ RequestOk([status |-> st, body |-> b])
    /\ UNCHANGED <<client_id, client_secret, games_ids, calls, now>>
    /\ UNCHANGED <<fileVars, newVars, resVars>>
    /\ UNCHANGED <<joinVars, fnVars>>

\* login() that stores whatever token the response seems to hold, decodable
\* or not, before it returns the error
LoginJson_CacheAnyway ==
    /\ ipc = "json" /\ who = "login"
    /\ IF resp.body.valid
         THEN /\ access_token' = resp.body.token
              /\ who' = "games"
              /\ request' = GamesRequest(resp.body.token, client_id, games_ids)
              /\ resp' = NoResp
              /\ ipc' = "exec"
              /\ UNCHANGED games_ret
         ELSE /\ ipc' = "ret"
              /\ games_ret' = Err
              /\ resp' = NoResp
              /\ request' = NoRequest
              /\ access_token' = Len(net)
              /\ UNCHANGED who
    /\ UNCHANGED <<client_id, client_secret, games_ids, calls, net, now>>
    /\ UNCHANGED <<fileVars, newVars, resVars>>
    /\ UNCHANGED <<joinVars, fnVars>>

\* login(), .json::<LoginResponsePayload>().await (igdb.rs:64-72), and then
\* games() up to the await of its own request (igdb.rs:81-93)
LoginJson ==
    /\ ipc = "json" /\ who = "login"
    /\ IF resp.body.valid
         THEN /\ access_token' = resp.body.token
              /\ who' = "games"
              /\ request' = GamesRequest(resp.body.token, client_id, games_ids)
              /\ resp' = NoResp
              /\ ipc' = "exec"
              /\ UNCHANGED games_ret
         ELSE GamesFail
    /\ UNCHANGED <<client_id, client_secret, games_ids, calls, net, now>>
    /\ UNCHANGED <<fileVars, newVars, resVars>>
    /\ UNCHANGED <<joinVars, fnVars>>

\* games(), .error_for_status()?.json::<Vec<Meta>>().await (igdb.rs:92-102)
GamesJson ==
    /\ ipc = "json" /\ who = "games"
    /\ IF ~IsClientOrServerError(resp.status) /\ resp.body.valid
         THEN /\ games_ret' = Ok(Collect(resp.body.vec))
              /\ ipc' = "ret"
              /\ resp' = NoResp
              /\ UNCHANGED <<access_token, who, request>>
         ELSE GamesFail
    /\ UNCHANGED <<client_id, client_secret, games_ids, calls, net, now>>
    /\ UNCHANGED <<fileVars, newVars, resVars>>
    /\ UNCHANGED <<joinVars, fnVars>>

(***************************************************************************)
(* Data::new (data/mod.rs:267-316).                                        *)
(***************************************************************************)
Dates == 1..MaxDates
Lists == SeqUpTo(GameId, MaxListLen)
\* Lists: any history of at most MaxDates dates
Histories == UNION {[1..k -> Lists] : k \in 0..MaxDates}
\* The record lists a metadata file can hold at start
FileVecs == SeqUpTo({Meta(id, "disk") : id \in GameId}, MaxFileLen)

\* Lists::latest (data/mod.rs:30-32): the list of the greatest date
HasLatest(ls) == DOMAIN ls # {}
Latest(ls) == ls[CHOOSE d \in DOMAIN ls : \A e \in DOMAIN ls : e <= d]

\* A reconciliation that asks for every id, in the store or not
IsMissing_All(m, id) == TRUE

\* The closure of the filter_map (data/mod.rs:286-296)
IsMissing(m, id) == id \notin DOMAIN m
\* A reconciliation that never fails on a missing non-catalog id
ReconcileFails_Never(m, list) == FALSE

\* collect::<Result<Vec<_>>>() is Err when some element is Err
ReconcileFails(m, list) ==
    \E i \in DOMAIN list : IsMissing(m, list[i]) /\ ~IsIgdb(list[i])
\* ... and otherwise the missing ids, in the order of the list
MissingMetas(m, list) == SelectSeq(list, LAMBDA id : IsMissing(m, id))

\* A serialization that writes no record
Serializations_Empty(m) == {<<>>}

\* serde_metas::serialize: the values of the map, in the map's iteration
\* order, which HashMap leaves open: any listing of the values
Serializations(m) ==
    {[i \in DOMAIN ord |-> m[ord[i]]] : ord \in Orders(DOMAIN m)}

\* A load that prefers the template to the cache
NewLoad_TemplateFirst ==
    /\ npc = "load"
    /\ lists' = list_file
    /\ IF template_file.present
         THEN /\ meta_file' = template_file
              /\ metas' = Collect(template_file.vec)
         ELSE IF meta_file.present
         THEN /\ metas' = Collect(meta_file.vec)
              /\ UNCHANGED meta_file
         ELSE /\ metas' = EmptyMetas
              /\ UNCHANGED meta_file
    /\ npc' = "reconcile"
    /\ UNCHANGED <<list_file, template_file, env, mpc, missing_metas>>
    /\ UNCHANGED <<igdbVars, resVars>>
    /\ UNCHANGED <<joinVars, fnVars>>

\* lines 268-279: the lists and the metadata are read; a cache that is
\* absent is first copied from the template, if there is one
NewLoad ==
    /\ npc = "load"
    /\ lists' = list_file
    /\ IF meta_file.present
         THEN /\ metas' = Collect(meta_file.vec)
              /\ UNCHANGED meta_file
         ELSE IF template_file.present
         THEN /\ meta_file' = template_file
              /\ metas' = Collect(template_file.vec)
         ELSE /\ metas' = EmptyMetas
              /\ UNCHANGED meta_file
    /\ npc' = "reconcile"
    /\ UNCHANGED <<list_file, template_file, env, mpc, missing_metas>>
    /\ UNCHANGED <<igdbVars, resVars>>
    /\ UNCHANGED <<joinVars, fnVars>>

\* lines 281-297 and, with nothing missing, 299 and 309-315
NewReconcile ==
    /\ npc = "reconcile"
    /\ IF ~HasLatest(lists) \/ ReconcileFails(metas, Latest(lists))
         THEN /\ npc' = "err"
              /\ UNCHANGED missing_metas
         ELSE /\ missing_metas' = MissingMetas(metas, Latest(lists))
              /\ npc' = IF missing_metas' = <<>> THEN "ok" ELSE "fetch"
    /\ UNCHANGED <<mpc, lists, metas>>
    /\ UNCHANGED <<fileVars, igdbVars, resVars>>
    /\ UNCHANGED <<joinVars, fnVars>>

\* A fetch that goes ahead without reading the environment
NewFetch_Unchecked ==
    /\ npc = "fetch"
    /\ client_id' = "cid"
    /\ client_secret' = "secret"
    /\ access_token = NoToken
    /\ GamesEnter(missing_metas)
    /\ npc' = "await"
    /\ UNCHANGED <<access_token, net, now>>
    /\ UNCHANGED <<mpc, lists, metas, missing_metas>>
    /\ UNCHANGED <<fileVars, resVars>>
    /\ UNCHANGED <<joinVars, fnVars>>

\* lines 300-304, up to the first await inside games(): the credentials
\* are read, the client is made and games(missing_metas) is entered
NewFetch ==
    /\ npc = "fetch"
    /\ IF "CLIENT_ID" \in env /\ "CLIENT_SECRET" \in env
         THEN /\ client_id' = "cid"
              /\ client_secret' = "secret"
              /\ access_token = NoToken     \* IgdbRequestor::new
              /\ GamesEnter(missing_metas)
              /\ npc' = "await"
              /\ UNCHANGED <<access_token, net, now>>
         ELSE /\ npc' = "err"
              /\ UNCHANGED igdbVars
    /\ UNCHANGED <<mpc, lists, metas, missing_metas>>
    /\ UNCHANGED <<fileVars, resVars>>
    /\ UNCHANGED <<joinVars, fnVars>>

\* lines 304-316, after games() has returned: Err leaves through `?`; Ok
\* is merged into the store, which is then written to meta.json
NewMerge ==
    /\ npc = "await" /\ ipc = "ret"
    /\ ipc' = "idle"
    /\ IF games_ret.ok
         THEN /\ metas' = Extend(metas, games_ret.metas)
              /\ \E v \in Serializations(metas') : meta_file' = File(v)
              /\ npc' = "ok"
         ELSE /\ npc' = "err"
              /\ UNCHANGED <<metas, meta_file>>
    /\ UNCHANGED <<mpc, lists, missing_metas>>
    /\ UNCHANGED <<list_file, template_file, env>>
    /\ UNCHANGED <<client_id, client_secret, access_token, who, request, resp,
                   games_ids, games_ret, calls, net, now>>
    /\ UNCHANGED resVars
    /\ UNCHANGED <<joinVars, fnVars>>

(***************************************************************************)
(* ResourceRequestor (request/resource.rs).                                *)
(*                                                                         *)
(* A url is kept as url.split('/') gives it: the segments before the last  *)
(* one (dirs) and the last one, itself kept as split('.') gives it (file). *)
(***************************************************************************)
MAX_CONNECTIONS == 8
RESOURCE_PATH == "res"
\* ImageSize::Hd.to_string()
SIZE_HD == "t_720p"

Url(dirs, file) == [dirs |-> dirs, file |-> file]
NoUrl == Url(<<>>, <<>>)

ReplaceLast(parts, x) == [parts EXCEPT ![Len(parts)] = x]

\* line 45: url_parts[url_parts.len() - 2] == "t_thumb"
IsIgdbUrl(u) == u.dirs[Len(u.dirs)] = "t_thumb"
\* lines 48-59: the last segment, its extension forced to png for igdb
Filename(u) == IF IsIgdbUrl(u) THEN ReplaceLast(u.file, "png") ELSE u.file
\* lines 68-73: res/[size/]filename
CachePath(u) ==
    [dir |-> IF IsIgdbUrl(u) THEN <<RESOURCE_PATH, SIZE_HD>>
                             ELSE <<RESOURCE_PATH>>,
     file |-> Filename(u)]
\* lines 60-66 and 81: the url that is requested
ReqUrl(u) ==
    Url(IF IsIgdbUrl(u) THEN ReplaceLast(u.dirs, SIZE_HD) ELSE u.dirs,
        Filename(u))

\* What the origin serves for a request url: its own bytes
Content(r) == [of |-> r]
NoBytes == Content(NoUrl)

AssetStatuses == {200, 404}

NoCall == [url |-> NoUrl]
\* A completed call: what it was asked, what it returned, how many requests
\* it sent and how it ended ("hit", "ok", or the failure)
Done(u, ok, bytes, sent, why) ==
    [url |-> u, ok |-> ok, bytes |-> bytes, sent |-> sent, why |-> why]

\* What can fail in get(): request.send() ("transport"), the status
\* ("status"), .bytes() ("body"), create_dir_all or fs::write ("write")
Faults == {"transport", "status", "body", "write"}

Tasks == DOMAIN rpc
\* the downloads that have sent their request and not yet got every byte
InFlight == {c \in Tasks : rpc[c] \in {"send", "bytes"}}

Requested(r) == IF r \in DOMAIN fetched THEN fetched[r] ELSE 0
CountRequest(r) ==
    [x \in DOMAIN fetched \cup {r} |-> IF x = r THEN Requested(r) + 1
                                              ELSE fetched[x]]
\* A write that creates the file and leaves it empty
WriteFile_Truncated(path, bytes) ==
    [x \in DOMAIN res_dir \cup {path} |-> IF x = path THEN NoBytes
                                                    ELSE res_dir[x]]

\* A write that leaves the directory as it was
WriteFile_Nothing(path, bytes) == res_dir

\* line 96: fs::write(path, &res)
WriteFile(path, bytes) ==
    [x \in DOMAIN res_dir \cup {path} |-> IF x = path THEN bytes
                                                    ELSE res_dir[x]]

\* A lookup that never finds the file
PathExists_Never(path) == FALSE

\* line 77: path.exists()
PathExists(path) == path \in DOMAIN res_dir

\* The tasks are spawned on one LocalSet in the order of their numbers
\* (summary.rs:61-271), which polls them first in that order: a task makes
\* its first call after the tasks spawned before it have made theirs
Started(c) == rpc[c] # "idle" \/ hist[c] # <<>>

\* get() returns Err: the task that called it ends with that error
GetFail(c, why) ==
    /\ hist' = [hist EXCEPT
           ![c] = Append(@, Done(cur[c].url, FALSE, NoBytes, 1, why))]
    /\ cur' = [cur EXCEPT ![c] = NoCall]
    /\ rpc' = [rpc EXCEPT ![c] = "failed"]

\* lines 43-87, up to the first await that suspends: the path is derived
\* and looked up; a file that exists is read and returned; otherwise a
\* permit is asked for and, when one is free, the request is sent
GetStart(c) ==
    /\ rpc[c] = "idle"
    /\ Len(hist[c]) < quota
    /\ \A d \in Tasks : d < c => Started(d)
    /\ \E u \in items[c] :
         IF PathExists(CachePath(u))
           THEN /\ hist' = [hist EXCEPT
                      ![c] = Append(@, Done(u, TRUE, res_dir[CachePath(u)], 0, "hit"))]
                /\ UNCHANGED <<rpc, cur, sem, waiters, fetched>>
           ELSE /\ cur' = [cur EXCEPT ![c] = [url |-> u]]
                /\ IF sem > 0 /\ waiters = <<>>
                     THEN /\ sem' = sem - 1
                          /\ fetched' = CountRequest(ReqUrl(u))
                          /\ rpc' = [rpc EXCEPT ![c] = "send"]
                          /\ UNCHANGED waiters
                     ELSE /\ waiters' = Append(waiters, c)
                          /\ rpc' = [rpc EXCEPT ![c] = "acquire"]
                          /\ UNCHANGED <<sem, fetched>>
                /\ UNCHANGED hist
    /\ UNCHANGED <<items, quota, faults, res_dir>>
    /\ UNCHANGED <<fileVars, newVars, igdbVars>>
    /\ UNCHANGED <<joinVars, fnVars>>

\* line 85: sem.acquire().await completes for the first task in the queue,
\* and line 87 sends the request
GetAcquired(c) ==
    /\ rpc[c] = "acquire"
    /\ sem > 0
    /\ waiters # <<>> /\ Head(waiters) = c
    /\ sem' = sem - 1
    /\ waiters' = Tail(waiters)
    /\ fetched' = CountRequest(ReqUrl(cur[c].url))
    /\ rpc' = [rpc EXCEPT ![c] = "send"]
    /\ UNCHANGED <<items, quota, faults, cur, hist, res_dir>>
    /\ UNCHANGED <<fileVars, newVars, igdbVars>>
    /\ UNCHANGED <<joinVars, fnVars>>

\* get() that keeps its permit when send() has returned
GetSent_KeepPermit(c) ==
    /\ rpc[c] = "send"
    /\ rpc' = [rpc EXCEPT ![c] = "bytes"]
    /\ UNCHANGED <<items, quota, faults, cur, hist, sem, waiters, res_dir,
                   fetched>>
    /\ UNCHANGED <<fileVars, newVars, igdbVars>>
    /\ UNCHANGED <<joinVars, fnVars>>

\* get() that leaves a marker file where the download failed
GetSent_CacheError(c) ==
    /\ rpc[c] = "send"
    /\ sem' = sem + 1
    /\ \E st \in AssetStatuses :
         IF IsClientOrServerError(st)
           THEN /\ "status" \in faults
                /\ GetFail(c, "status")
                /\ res_dir' = WriteFile(CachePath(cur[c].url), NoBytes)
           ELSE /\ rpc' = [rpc EXCEPT ![c] = "bytes"]
                /\ UNCHANGED <<cur, hist, res_dir>>
    /\ UNCHANGED <<items, quota, faults, waiters, fetched>>
    /\ UNCHANGED <<fileVars, newVars, igdbVars>>
    /\ UNCHANGED <<joinVars, fnVars>>

\* get() that gives its permit back only when send() has returned Ok
GetSent_LeakOnError(c) ==
    /\ rpc[c] = "send"
    /\ \/ /\ "transport" \in faults
          /\ GetFail(c, "transport")
          /\ UNCHANGED sem
       \/ \E st \in AssetStatuses :
            IF IsClientOrServerError(st)
              THEN /\ "status" \in faults
                   /\ GetFail(c, "status")
                   /\ sem' = sem + 1
              ELSE /\ rpc' = [rpc EXCEPT ![c] = "bytes"]
                   /\ sem' = sem + 1
                   /\ UNCHANGED <<cur, hist>>
    /\ UNCHANGED <<items, quota, faults, waiters, res_dir, fetched>>
    /\ UNCHANGED <<fileVars, newVars, igdbVars>>
    /\ UNCHANGED <<joinVars, fnVars>>

\* lines 87-89: request.send().await completes, the block ends and drops
\* the permit; then `?` and error_for_status()?
GetSent(c) ==
    /\ rpc[c] = "send"
    /\ sem' = sem + 1
    /\ \/ /\ "transport" \in faults
          /\ GetFail(c, "transport")
       \/ \E st \in AssetStatuses :
            IF IsClientOrServerError(st)
              THEN /\ "status" \in faults
                   /\ GetFail(c, "status")
              ELSE /\ rpc' = [rpc EXCEPT ![c] = "bytes"]
                   /\ UNCHANGED <<cur, hist>>
    /\ UNCHANGED <<items, quota, faults, waiters, res_dir, fetched>>
    /\ UNCHANGED <<fileVars, newVars, igdbVars>>
    /\ UNCHANGED <<joinVars, fnVars>>

\* lines 90-98: .bytes().await?, then the directory is made, the bytes are
\* written to the path and returned
GetBytes(c) ==
    /\ rpc[c] = "bytes"
    /\ \/ /\ "body" \in faults
          /\ GetFail(c, "body")
          /\ UNCHANGED res_dir
       \/ \* create_dir_all fails, or fs::write fails before or after it has
          \* created the file
          /\ "write" \in faults
          /\ GetFail(c, "write")
          /\ \/ UNCHANGED res_dir
             \/ res_dir' = WriteFile(CachePath(cur[c].url), NoBytes)
       \/ LET u == cur[c].url
              bytes == Content(ReqUrl(u))
          IN /\ res_dir' = WriteFile(CachePath(u), bytes)
             /\ hist' = [hist EXCEPT
                    ![c] = Append(@, Done(u, TRUE, bytes, 1, "ok"))]
             /\ cur' = [cur EXCEPT ![c] = NoCall]
             /\ rpc' = [rpc EXCEPT ![c] = "idle"]
    /\ UNCHANGED <<items, quota, faults, sem, waiters, fetched>>
    /\ UNCHANGED <<fileVars, newVars, igdbVars>>
    /\ UNCHANGED <<joinVars, fnVars>>

(***************************************************************************)
(* main (main.rs:49-86).                                                   *)
(***************************************************************************)
\* A main that spawns the plots whatever Data::new is doing
MainNew_Early ==
    /\ mpc = "new"
    /\ mpc' = "plots"
    /\ rpc' = [c \in Tasks |-> "idle"]
    /\ UNCHANGED <<npc, lists, metas, missing_metas>>
    /\ UNCHANGED <<items, quota, faults, cur, hist, sem, waiters, res_dir,
                   fetched>>
    /\ UNCHANGED <<fileVars, igdbVars>>
    /\ UNCHANGED <<joinVars, fnVars>>

\* line 58: Data::new(client.clone()).await? ; on Ok the plots are spawned
MainNew ==
    /\ mpc = "new"
    /\ npc \in {"ok", "err"}
    /\ IF npc = "ok"
         THEN /\ mpc' = "plots"
              /\ rpc' = [c \in Tasks |-> "idle"]
         ELSE /\ mpc' = "exit_err"
              /\ UNCHANGED rpc
    /\ UNCHANGED <<npc, lists, metas, missing_metas>>
    /\ UNCHANGED <<items, quota, faults, cur, hist, sem, waiters, res_dir, fetched>>
    /\ UNCHANGED <<fileVars, igdbVars>>
    /\ UNCHANGED <<joinVars, fnVars>>

vars == <<list_file, meta_file, template_file, env, mpc, npc, lists, metas,
          missing_metas, client_id, client_secret, access_token, ipc, who,
          request, resp, games_ids, games_ret, calls, net, now, items, quota,
          faults, rpc, cur, hist, sem, waiters, res_dir, fetched, joined,
          join_ret, apc, arg, rank, out>>

(***************************************************************************)
(* Spec: one run of the process, from main's first line.                   *)
(***************************************************************************)
RunTasks == 1        \* tasks calling get() in a run
RunGets == 1         \* get() calls of one task in a run

\* urls as the catalog gives them: //host/.../t_thumb/name.ext
UrlCover == Url(<<"", "", "images.igdb.com", "t_thumb">>, <<"co1", "jpg">>)
\* the same file name under another host
UrlMirror == Url(<<"", "", "mirror.igdb.com", "t_thumb">>, <<"co1", "png">>)
\* a url that does not follow the catalog's convention
UrlLogo == Url(<<"", "", "example.com", "logos">>, <<"logo", "svg">>)

EmptyDir == [x \in {} |-> NoBytes]
EmptyFetched == [x \in {} |-> 0]

\* IgdbRequestor::new (igdb.rs:25-32) with the given credentials
InitIgdb(cid, secret) ==
    /\ client_id = cid
    /\ client_secret = secret
    /\ access_token = NoToken
    /\ ipc = "idle"
    /\ who = ""
    /\ request = NoRequest
    /\ resp = NoResp
    /\ games_ids = <<>>
    /\ games_ret = NoRet
    /\ calls = 0
    /\ net = <<>>
    /\ now = 0

\* ResourceRequestor::new (resource.rs:36-41) and n tasks sharing it
InitRes(n, q, urls, at) ==
    /\ items = [c \in 1..n |-> urls]
    /\ quota = q
    /\ rpc = [c \in 1..n |-> at]
    /\ cur = [c \in 1..n |-> NoCall]
    /\ hist = [c \in 1..n |-> <<>>]
    /\ sem = MAX_CONNECTIONS
    /\ waiters = <<>>
    /\ fetched = EmptyFetched

\* join_local has not been called
NoJoin == [done |-> FALSE, ok |-> FALSE, task |-> 0, why |-> ""]
InitNoJoin ==
    /\ joined = <<>>
    /\ join_ret = NoJoin

\* no query of the analytics layer has been made
InitNoQuery ==
    /\ apc = "none"
    /\ arg = FALSE
    /\ rank = <<>>
    /\ out = <<>>

\* Data::new and main have not run (and never do)
InitNoRun ==
    /\ list_file = <<>>
    /\ meta_file = Absent
    /\ template_file = Absent
    /\ env = {"CLIENT_ID", "CLIENT_SECRET"}
    /\ mpc = "none"
    /\ npc = "none"
    /\ lists = <<>>
    /\ metas = EmptyMetas
    /\ missing_metas = <<>>

Init ==
    /\ list_file \in Histories
    /\ InitNoJoin
    /\ InitNoQuery
    /\ meta_file \in {Absent} \cup {File(v) : v \in FileVecs}
    /\ template_file \in {Absent} \cup {File(v) : v \in FileVecs}
    /\ env \in SUBSET {"CLIENT_ID", "CLIENT_SECRET"}
    /\ mpc = "new"
    /\ npc = "load"
    /\ lists = <<>>
    /\ metas = EmptyMetas
    /\ missing_metas = <<>>
    /\ InitIgdb("", "")
    /\ InitRes(RunTasks, RunGets, {UrlCover}, "off")
    /\ faults = Faults
    /\ res_dir = EmptyDir

Next ==
    \/ NewLoad
    \/ NewReconcile
    \/ NewFetch
    \/ Execute
    \/ Sleep
    \/ Retry
    \/ LoginJson
    \/ GamesJson
    \/ NewMerge
    \/ MainNew
    \/ \E c \in Tasks : GetStart(c)
    \/ \E c \in Tasks : GetSent(c)
    \/ \E c \in Tasks : GetBytes(c)

Spec == Init /\ [][Next]_vars

(***************************************************************************)
(* SpecIgdb: one IgdbRequestor on which games() is called up to MaxCalls   *)
(* times, each call with some slice of ids.                                *)
(***************************************************************************)
DriverIds == SeqUpTo({Igdb(1), Igdb(2)}, 1)

DriverCall ==
    /\ npc = "none"
    /\ ipc \in {"idle", "ret"}
    /\ calls < MaxCalls
    /\ \E ids \in DriverIds : GamesEnter(ids)
    /\ UNCHANGED <<client_id, client_secret, access_token, net, now>>
    /\ UNCHANGED <<fileVars, newVars, resVars>>
    /\ UNCHANGED <<joinVars, fnVars>>

InitDriver ==
    /\ InitNoRun
    /\ InitNoJoin
    /\ InitNoQuery
    /\ InitIgdb("cid", "secret")
    /\ InitRes(0, 0, {}, "off")
    /\ faults = {}
    /\ res_dir = EmptyDir

NextIgdb ==
    \/ DriverCall
    \/ Execute
    \/ Sleep
    \/ Retry
    \/ LoginJson
    \/ GamesJson

SpecIgdb == InitDriver /\ [][NextIgdb]_vars

(***************************************************************************)
(* SpecRes: NumTasks tasks share one ResourceRequestor; each calls get()   *)
(* up to MaxGets times, one call after the other, for urls of its choice.  *)
(***************************************************************************)
NumTasks == 2
MaxGets == 2

AssetUrls == {UrlCover, UrlMirror, UrlLogo}

InitTasks ==
    /\ InitNoRun
    /\ InitNoJoin
    /\ InitNoQuery
    /\ InitIgdb("", "")
    /\ InitRes(NumTasks, MaxGets, AssetUrls, "idle")
    /\ faults = Faults
    /\ res_dir \in {EmptyDir,
                    [x \in {CachePath(UrlLogo)} |-> Content(ReqUrl(UrlLogo))]}

NextRes ==
    \/ \E c \in Tasks : GetStart(c)
    \/ \E c \in Tasks : GetSent(c)
    \/ \E c \in Tasks : GetBytes(c)

SpecRes == InitTasks /\ [][NextRes]_vars

(***************************************************************************)
(* SpecSeq: a single task calls get() up to SeqGets times in a row.        *)
(***************************************************************************)
SeqGets == 3

InitSeq ==
    /\ InitNoRun
    /\ InitNoJoin
    /\ InitNoQuery
    /\ InitIgdb("", "")
    /\ InitRes(1, SeqGets, AssetUrls, "idle")
    /\ faults = Faults
    /\ res_dir \in {EmptyDir,
                    [x \in {CachePath(UrlLogo)} |-> Content(ReqUrl(UrlLogo))]}

SpecSeq == InitSeq /\ [][NextRes]_vars

(***************************************************************************)
(* SpecCaller: a single caller of get() that goes on calling after get()   *)
(* has returned Err.                                                       *)
(***************************************************************************)
\* The caller takes the Err and is ready for its next call
GetAgain(c) ==
    /\ rpc[c] = "failed"
    /\ rpc' = [rpc EXCEPT ![c] = "idle"]
    /\ UNCHANGED <<items, quota, faults, cur, hist, sem, waiters, res_dir,
                   fetched>>
    /\ UNCHANGED <<fileVars, newVars, igdbVars>>
    /\ UNCHANGED <<joinVars, fnVars>>

NextCaller ==
    \/ \E c \in Tasks : GetStart(c)
    \/ \E c \in Tasks : GetSent(c)
    \/ \E c \in Tasks : GetBytes(c)
    \/ \E c \in Tasks : GetAgain(c)

SpecCaller == InitSeq /\ [][NextCaller]_vars

(***************************************************************************)
(* SpecJoin: a group of JoinTasks tasks on one LocalSet, each making up to *)
(* one get() call, and join_local (main.rs:33-47) waiting for the group.   *)
(***************************************************************************)
JoinTasks == 3

\* A task of the group returns Ok(()) (summary.rs: the end of a segment's
\* async block)
TaskEnd(c) ==
    /\ rpc[c] = "idle"
    /\ rpc' = [rpc EXCEPT ![c] = "done"]
    /\ UNCHANGED <<items, quota, faults, cur, hist, sem, waiters, res_dir,
                   fetched>>
    /\ UNCHANGED <<fileVars, newVars, igdbVars, joinVars, fnVars>>

Ended(c) == rpc[c] \in {"done", "failed"}
JoinOk == [done |-> TRUE, ok |-> TRUE, task |-> 0, why |-> ""]
JoinErr(c) ==
    [done |-> TRUE, ok |-> FALSE, task |-> c, why |-> hist[c][Len(hist[c])].why]

\* join_local returns: the JoinSet and the LocalSet are dropped, which
\* drops the tasks that have not ended, their permits and their places in
\* the queue of the semaphore
Abandon ==
    /\ rpc' = [d \in Tasks |-> IF Ended(d) THEN rpc[d] ELSE "aborted"]
    /\ sem' = sem + Cardinality({d \in Tasks : rpc[d] = "send"})
    /\ waiters' = <<>>

\* A loop that goes on after an Err and returns Ok at the end
JoinNext_Skip(c) ==
    /\ ~join_ret.done
    /\ Ended(c)
    /\ \A i \in DOMAIN joined : joined[i] # c
    /\ joined' = Append(joined, c)
    /\ join_ret' = IF {joined'[i] : i \in DOMAIN joined'} = Tasks
                     THEN JoinOk ELSE join_ret
    /\ UNCHANGED <<resVars, fileVars, newVars, igdbVars, fnVars>>

\* main.rs:40-43: set.join_next().await yields the result of a task that
\* has ended; `res??` returns the first Err, and the loop returns Ok when
\* the set is empty
JoinNext(c) ==
    /\ ~join_ret.done
    /\ Ended(c)
    /\ \A i \in DOMAIN joined : joined[i] # c
    /\ joined' = Append(joined, c)
    /\ IF rpc[c] = "failed"
         THEN /\ join_ret' = JoinErr(c)
              /\ Abandon
         ELSE /\ join_ret' = IF {joined'[i] : i \in DOMAIN joined'} = Tasks
                              THEN JoinOk ELSE join_ret
              /\ UNCHANGED <<rpc, sem, waiters>>
    /\ UNCHANGED <<items, quota, faults, cur, hist, res_dir, fetched>>
    /\ UNCHANGED <<fileVars, newVars, igdbVars, fnVars>>

InitJoin ==
    /\ InitNoJoin
    /\ InitNoQuery
    /\ InitNoRun
    /\ InitIgdb("", "")
    /\ InitRes(JoinTasks, 1, {UrlCover, UrlLogo}, "idle")
    /\ faults = {"status"}
    /\ res_dir = EmptyDir

NextJoin ==
    \/ \E c \in Tasks : GetStart(c)
    \/ \E c \in Tasks : GetSent(c)
    \/ \E c \in Tasks : GetBytes(c)
    \/ \E c \in Tasks : TaskEnd(c)
    \/ \E c \in Tasks : JoinNext(c)

SpecJoin == InitJoin /\ [][NextJoin]_vars

(***************************************************************************)
(* SpecSem: more tasks than permits, each downloading a file of its own.   *)
(***************************************************************************)
Spare == 1           \* tasks beyond MAX_CONNECTIONS

FileNames == <<"f1", "f2", "f3", "f4", "f5", "f6", "f7", "f8", "f9", "f10",
               "f11", "f12">>
UrlOf(c) == Url(<<"", "", "images.igdb.com", "t_thumb">>, <<FileNames[c], "jpg">>)

InitSem ==
    /\ InitNoRun
    /\ InitNoJoin
    /\ InitNoQuery
    /\ InitIgdb("", "")
    /\ items = [c \in 1..(MAX_CONNECTIONS + Spare) |-> {UrlOf(c)}]
    /\ quota = 1
    /\ faults = {"status"}
    /\ rpc = [c \in 1..(MAX_CONNECTIONS + Spare) |-> "idle"]
    /\ cur = [c \in 1..(MAX_CONNECTIONS + Spare) |-> NoCall]
    /\ hist = [c \in 1..(MAX_CONNECTIONS + Spare) |-> <<>>]
    /\ sem = MAX_CONNECTIONS
    /\ waiters = <<>>
    /\ fetched = EmptyFetched
    /\ res_dir = EmptyDir

NextSem ==
    \/ \E c \in Tasks : GetStart(c)
    \/ \E c \in Tasks : GetAcquired(c)
    \/ \E c \in Tasks : GetSent(c)
    \/ \E c \in Tasks : GetBytes(c)

SpecSem == InitSem /\ [][NextSem]_vars

(***************************************************************************)
(* SpecExtrema: Data::extrema (data/mod.rs:326-343) called on any history  *)
(* of snapshots of at most MaxExtLen items on days of 1..MaxDay.  A        *)
(* Duration is a number of days.                                           *)
(***************************************************************************)
MaxDay == 4
MaxExtLen == 2

ExtIds == {Igdb(1), Igdb(2)}
DatedHistories ==
    UNION {[D -> SeqUpTo(ExtIds, MaxExtLen)] : D \in SUBSET (1..MaxDay)}

\* Data::dates (lines 319-323): the dates of the history, ascending
DatesOf(ls) ==
    CHOOSE d \in [1..Cardinality(DOMAIN ls) -> DOMAIN ls] :
        \A i, j \in DOMAIN d : i < j => d[i] < d[j]

\* line 332: list[if top { 0 } else { list.len() - 1 }]
Extremum(list, top) == list[IF top THEN 1 ELSE Len(list)]

\* line 332 on an empty list: the index is out of bounds (with top), or
\* list.len() - 1 underflows (without): extrema panics
ExtremaPanics(ls) ==
    \E i \in 1..(Cardinality(DOMAIN ls) - 1) : ls[DatesOf(ls)[i]] = <<>>

\* An entry update that keeps the last duration only
AddDuration_Overwrite(acc, id, duration) ==
    [x \in DOMAIN acc \cup {id} |-> IF x = id THEN duration ELSE acc[x]]

\* lines 334-337: entry(extremum).and_modify(|e| *e += duration)
\*                                .or_insert(duration)
AddDuration(acc, id, duration) ==
    [x \in DOMAIN acc \cup {id} |->
        IF x = id THEN (IF id \in DOMAIN acc THEN acc[id] ELSE 0) + duration
                  ELSE acc[x]]

\* lines 330-338: the loop over dates.windows(2), from the i-th window on
RECURSIVE ExtremaFrom(_, _, _, _)
ExtremaFrom(ls, top, i, acc) ==
    LET dates == DatesOf(ls)
    IN IF i >= Len(dates) THEN acc
       ELSE ExtremaFrom(ls, top, i + 1,
                AddDuration(acc, Extremum(ls[dates[i]], top),
                            dates[i + 1] - dates[i]))

\* lines 340-342: the pairs of the map in the map's iteration order, which
\* HashMap leaves open, sorted (stably) by Reverse(duration): any listing
\* of the pairs in which the durations do not increase
ExtremaSorted(acc) ==
    {v \in [1..Cardinality(DOMAIN acc) ->
                {[id |-> id, duration |-> acc[id]] : id \in DOMAIN acc}] :
        /\ \A i, j \in DOMAIN v : v[i] = v[j] => i = j
        /\ \A i, j \in DOMAIN v : i < j => v[i].duration >= v[j].duration}

EmptyAcc == [x \in {} |-> 0]

\* Data::extrema(top)
Extrema ==
    /\ apc = "call"
    /\ IF ExtremaPanics(lists)
         THEN /\ apc' = "panic"
              /\ UNCHANGED out
         ELSE /\ apc' = "ret"
              /\ out' \in ExtremaSorted(ExtremaFrom(lists, arg, 1, EmptyAcc))
    /\ UNCHANGED <<arg, rank>>
    /\ UNCHANGED <<fileVars, newVars, igdbVars, resVars, joinVars>>

InitExtrema ==
    /\ InitNoJoin
    /\ InitIgdb("", "")
    /\ InitRes(0, 0, {}, "off")
    /\ faults = {}
    /\ res_dir = EmptyDir
    /\ list_file = <<>>
    /\ meta_file = Absent
    /\ template_file = Absent
    /\ env = {}
    /\ mpc = "none"
    /\ npc = "none"
    /\ lists \in DatedHistories
    /\ metas = EmptyMetas
    /\ missing_metas = <<>>
    /\ apc = "call"
    /\ arg \in BOOLEAN
    /\ rank = <<>>
    /\ out = <<>>

NextExtrema == Extrema

SpecExtrema == InitExtrema /\ [][NextExtrema]_vars

(***************************************************************************)
(* SpecDiffs: Data::igdb_diffs (data/mod.rs:385-401) called on any store   *)
(* of records of RankIds, with or without a total rating, and any history  *)
(* of at most one snapshot of at most MaxRankLen items.  An Option is a    *)
(* sequence of length 0 or 1.                                              *)
(***************************************************************************)
MaxRating == 3
MaxRankLen == 3

RankIds == {Igdb(1), Igdb(2), Igdb(3)}
Ratings == {<<>>} \cup {<<r>> : r \in 1..MaxRating}

\* a Meta with its total_rating
RatedMeta(id, total) == [id |-> id, origin |-> "disk", total_rating |-> total]

RatedStores ==
    UNION {{[id \in D |-> RatedMeta(id, t[id])] : t \in [D -> Ratings]} :
              D \in SUBSET RankIds}

\* The selector that reads the total rating whatever the kind
RatingOf_Total(meta, kind) == meta.total_rating

\* lines 351-355: match kind { User => meta.rating, Critic =>
\* meta.aggregated_rating, Total => meta.total_rating }, an Option<f64>
RatingOf(meta, kind) ==
    CASE kind = "User" -> meta.rating
      [] kind = "Critic" -> meta.aggregated_rating
      [] kind = "Total" -> meta.total_rating

\* A ranking that takes the ranked records out of the store
IgdbListCall_Draining ==
    /\ apc = "call"
    /\ apc' = "ret"
    /\ rank' = <<>>
    /\ metas' = [id \in {x \in DOMAIN metas : metas[x].total_rating = <<>>} |->
                    metas[id]]
    /\ UNCHANGED <<arg, out>>
    /\ UNCHANGED <<mpc, npc, lists, missing_metas>>
    /\ UNCHANGED <<fileVars, igdbVars, resVars, joinVars>>

\* igdb_list(kind) (lines 345-361): the records that have the rating the
\* kind selects, paired with it, in the map's iteration order, sorted
\* (stably) by rating descending: any listing in which the ratings do not
\* increase
IgdbList(m, kind) ==
    LET rated == {[rating |-> RatingOf(m[id], kind)[1], meta |-> m[id]] :
                     id \in {x \in DOMAIN m : RatingOf(m[x], kind) # <<>>}}
    IN {v \in [1..Cardinality(rated) -> rated] :
          /\ \A i, j \in DOMAIN v : v[i] = v[j] => i = j
          /\ \A i, j \in DOMAIN v : i < j => v[i].rating >= v[j].rating}

\* line 386: igdb_list(RatingKind::Total)
IgdbListTotal(m) == IgdbList(m, "Total")

\* A search that reports every item as found at the top of the snapshot
Position_Found(list, id) == <<0>>

\* lines 392-395: iter().position(|id| *id == meta.id), an Option<usize>
Position(list, id) ==
    IF \E p \in DOMAIN list : list[p] = id
      THEN <<(CHOOSE p \in DOMAIN list :
                 /\ list[p] = id
                 /\ \A q \in DOMAIN list : list[q] = id => p <= q) - 1>>
      ELSE <<>>

\* The difference taken the other way round
Diff_Reversed(pos, i) == i - pos

\* line 396: id as i32 - i as i32
Diff(pos, i) == pos - i

\* lines 388-398: one pair per element of igdb_list, enumerate() counting
\* from 0
DiffsOf(list, ranked) ==
    [k \in DOMAIN ranked |->
        [diff |-> Diff(Position(list, ranked[k].meta.id)[1], k - 1),
         meta |-> ranked[k].meta]]

\* line 399: sort_by_key(|x| x.0), a stable sort
SortByDiff(v) ==
    LET p == CHOOSE q \in [DOMAIN v -> DOMAIN v] :
                 \A i, j \in DOMAIN v :
                     i < j => \/ v[q[i]].diff < v[q[j]].diff
                              \/ v[q[i]].diff = v[q[j]].diff /\ q[i] < q[j]
    IN [i \in DOMAIN v |-> v[p[i]]]

NoDiffs == [some |-> FALSE, vec |-> <<>>]
SomeDiffs(v) == [some |-> TRUE, vec |-> v]

\* Data::igdb_diffs()
IgdbDiffs ==
    /\ apc = "call"
    /\ apc' = "ret"
    /\ rank' \in IgdbListTotal(metas)
    /\ out' = IF ~HasLatest(lists) THEN NoDiffs
              ELSE IF \E k \in DOMAIN rank' :
                        Position(Latest(lists), rank'[k].meta.id) = <<>>
              THEN NoDiffs
              ELSE SomeDiffs(SortByDiff(DiffsOf(Latest(lists), rank')))
    /\ UNCHANGED arg
    /\ UNCHANGED <<fileVars, newVars, igdbVars, resVars, joinVars>>

\* plot/plots/summary.rs, the number of entries each ranking segment shows
NUM_OVERRATED == 5
NUM_UNDERRATED == 5

\* The "Overrated" (arg) and "Underrated" (~arg) segments of the summary:
\* igdb_diffs().ok_or_else(..)? ends the task with an error on None; the
\* slices [..NUM_OVERRATED] and [len - NUM_UNDERRATED..] panic on a result
\* shorter than the segment; otherwise the segment is drawn.
DiffsConsumer ==
    /\ apc = "ret"
    /\ apc' = IF ~out.some THEN "err"
              ELSE IF arg /\ Len(out.vec) < NUM_OVERRATED THEN "panic"
              ELSE IF ~arg /\ Len(out.vec) < NUM_UNDERRATED THEN "panic"
              ELSE "draw"
    /\ UNCHANGED <<arg, rank, out>>
    /\ UNCHANGED <<fileVars, newVars, igdbVars, resVars, joinVars>>

InitDiffs ==
    /\ InitNoJoin
    /\ InitIgdb("", "")
    /\ InitRes(0, 0, {}, "off")
    /\ faults = {}
    /\ res_dir = EmptyDir
    /\ list_file = <<>>
    /\ meta_file = Absent
    /\ template_file = Absent
    /\ env = {}
    /\ mpc = "none"
    /\ npc = "none"
    /\ lists \in {<<>>} \cup {<<l>> : l \in SeqUpTo(RankIds, MaxRankLen)}
    /\ metas \in RatedStores
    /\ missing_metas = <<>>
    /\ apc = "call"
    /\ arg \in BOOLEAN
    /\ rank = <<>>
    /\ out = NoDiffs

NextDiffs == IgdbDiffs \/ DiffsConsumer

SpecDiffs == InitDiffs /\ [][NextDiffs]_vars

(***************************************************************************)
(* SpecList: Data::igdb_list (data/mod.rs:345-361) called with each        *)
(* RatingKind on any store of records of RankIds, each of the three        *)
(* ratings present (in 1..MaxScore) or absent.                             *)
(***************************************************************************)
MaxScore == 2

\* pub enum RatingKind
RatingKind == {"User", "Critic", "Total"}

Scores == {<<>>} \cup {<<r>> : r \in 1..MaxScore}

\* a Meta with its three ratings
ScoredMeta(id, user, critic, total) ==
    [id |-> id, origin |-> "disk", rating |-> user,
     aggregated_rating |-> critic, total_rating |-> total]

\* the stores of records of the ids D, every choice of ratings
ScoredStores(D) ==
    {[id \in D |-> ScoredMeta(id, u[id], c[id], t[id])] :
        u \in [D -> Scores], c \in [D -> Scores], t \in [D -> Scores]}

\* Everything but the store and the query is as before any run
InitStoreOnly ==
    /\ InitNoJoin
    /\ InitIgdb("", "")
    /\ InitRes(0, 0, {}, "off")
    /\ faults = {}
    /\ res_dir = EmptyDir
    /\ list_file = <<>>
    /\ meta_file = Absent
    /\ template_file = Absent
    /\ env = {}
    /\ mpc = "none"
    /\ npc = "none"
    /\ lists = <<>>
    /\ missing_metas = <<>>

\* Data::igdb_list(kind)
IgdbListCall ==
    /\ apc = "call"
    /\ apc' = "ret"
    /\ rank' \in IgdbList(metas, arg)
    /\ UNCHANGED <<arg, out>>
    /\ UNCHANGED <<fileVars, newVars, igdbVars, resVars, joinVars>>

InitList ==
    /\ InitStoreOnly
    /\ \E D \in SUBSET RankIds : metas \in ScoredStores(D)
    /\ apc = "call"
    /\ arg \in RatingKind
    /\ rank = <<>>
    /\ out = <<>>

NextList == IgdbListCall

SpecList == InitList /\ [][NextList]_vars

(***************************************************************************)
(* SpecCommon: Data::most_common (data/mod.rs:364-382) called as the       *)
(* summary's "Game Engines" segment calls it (summary.rs:182-185): extract *)
(* is the record's game_engines, the key is the engine's name.  Two        *)
(* engines of one name can differ in their logo.                           *)
(***************************************************************************)
MaxEngines == 2

\* pub struct GameEngine { name, logo }
GameEngine == {[name |-> n, logo |-> l] :
                 n \in {"unity", "godot"}, l \in {<<>>, <<UrlLogo>>}}

\* a Meta with its game_engines
EngineMeta(id, engines) == [id |-> id, origin |-> "disk", game_engines |-> engines]

\* the stores of records of the ids D, every choice of engines
EngineStores(D) ==
    {[id \in D |-> EngineMeta(id, g[id])] :
        g \in [D -> SeqUpTo(GameEngine, MaxEngines)]}

\* summary.rs:183, extract: |meta| meta.game_engines.iter()
Extract(meta) == meta.game_engines

\* summary.rs:184, hash: |game_engine| game_engine.name.as_str()
Hash(value) == value.name

\* line 374: metas.0.values().flat_map(extract), the records taken in the
\* order ord
RECURSIVE FlatMap(_, _)
FlatMap(m, ord) ==
    IF ord = <<>> THEN <<>>
    ELSE Extract(m[Head(ord)]) \o FlatMap(m, Tail(ord))

\* An entry update that inserts and never counts
Tally_NoCount(values, value) ==
    [k \in DOMAIN values \cup {Hash(value)} |->
        IF k \in DOMAIN values THEN values[k]
        ELSE [count |-> 1, value |-> value]]

\* lines 375-378: entry(hash(value)).and_modify(|e| e.0 += 1)
\*                                  .or_insert((1, value))
Tally(values, value) ==
    [k \in DOMAIN values \cup {Hash(value)} |->
        IF k # Hash(value) THEN values[k]
        ELSE IF k \in DOMAIN values
          THEN [values[k] EXCEPT !.count = @ + 1]
          ELSE [count |-> 1, value |-> value]]

\* lines 373-379: the loop over the flattened elements, from an empty map
RECURSIVE TallyAll(_)
TallyAll(flat) ==
    IF flat = <<>> THEN <<>>
    ELSE Tally(TallyAll(SubSeq(flat, 1, Len(flat) - 1)), flat[Len(flat)])

\* lines 380-381: values().copied().collect() in the map's iteration
\* order, then the stable sort_by_key(|top| Reverse(top.0)): any listing of
\* the entries in which the counts do not increase
SortedByCount(values) ==
    LET entries == {values[k] : k \in DOMAIN values}
    IN {v \in [1..Cardinality(entries) -> entries] :
          /\ \A i, j \in DOMAIN v : v[i] = v[j] => i = j
          /\ \A i, j \in DOMAIN v : i < j => v[i].count >= v[j].count}

\* Data::most_common(extract, hash)
MostCommon ==
    /\ apc = "call"
    /\ apc' = "ret"
    /\ \E ord \in Orders(DOMAIN metas) :
          rank' \in SortedByCount(TallyAll(FlatMap(metas, ord)))
    /\ UNCHANGED <<arg, out>>
    /\ UNCHANGED <<fileVars, newVars, igdbVars, resVars, joinVars>>

InitCommon ==
    /\ InitStoreOnly
    /\ \E D \in SUBSET RankIds : metas \in EngineStores(D)
    /\ apc = "call"
    /\ arg = FALSE
    /\ rank = <<>>
    /\ out = <<>>

NextCommon == MostCommon

SpecCommon == InitCommon /\ [][NextCommon]_vars

(***************************************************************************)
(* SpecSerde: the store read from meta.json, written back and read again   *)
(* (data/serde_metas.rs, with the serde attributes of Meta and GameId).    *)
(* meta.json holds a JSON array of objects; a JSON value is a record with  *)
(* its type t and, by type, its number n, string s or array a; a member    *)
(* an object does not have is JsonAbsent.  A record of the store keeps its *)
(* id, name, first_release_date (seconds and nanoseconds), total_rating    *)
(* (an Option) and genres (a Vec of names).                                *)
(***************************************************************************)
MaxJsonLen == 3
ReleaseSecs == 86400

JsonAbsent == [t |-> "absent", n |-> 0, s |-> "", a |-> <<>>]
JsonNull == [t |-> "null", n |-> 0, s |-> "", a |-> <<>>]
JsonNumber(n) == [t |-> "number", n |-> n, s |-> "", a |-> <<>>]
JsonString(str) == [t |-> "string", n |-> 0, s |-> str, a |-> <<>>]
JsonArray(a) == [t |-> "array", n |-> 0, s |-> "", a |-> a]

\* data/mod.rs:39-45, #[serde(untagged)] GameId, Serialize: the number,
\* the string, or null for the unit variant
JsonOfId(id) ==
    CASE id.kind = "Igdb" -> JsonNumber(id.num)
      [] id.kind = "Other" -> JsonString(id.str)
      [] id.kind = "None" -> JsonNull

\* data/mod.rs:39-45, #[serde(untagged)] GameId, Deserialize: the variants
\* are tried in order, Igdb on a number, Other on a string, None on null
IdOfJson(j) ==
    CASE j.t = "number" -> Igdb(j.n)
      [] j.t = "string" -> Other(j.s)
      [] j.t = "null" -> None

\* A writer that leaves the total rating out
MetaToJson_NoRating(meta) ==
    [id |-> JsonOfId(meta.id),
     name |-> JsonString(meta.name),
     first_release_date |-> JsonNumber(meta.first_release_date.secs),
     total_rating |-> JsonAbsent,
     genres |-> IF meta.genres = <<>> THEN JsonAbsent
                ELSE JsonArray(meta.genres)]

\* data/mod.rs:195-232, Serialize for Meta: #[skip_serializing_none] leaves
\* a None out, skip_serializing_if = "Vec::is_empty" leaves an empty Vec
\* out, time::serde::timestamp writes the whole seconds
MetaToJson(meta) ==
    [id |-> JsonOfId(meta.id),
     name |-> JsonString(meta.name),
     first_release_date |-> JsonNumber(meta.first_release_date.secs),
     total_rating |-> IF meta.total_rating = <<>> THEN JsonAbsent
                      ELSE JsonNumber(meta.total_rating[1]),
     genres |-> IF meta.genres = <<>> THEN JsonAbsent
                ELSE JsonArray(meta.genres)]

\* data/mod.rs:195-232, Deserialize for Meta: an Option is None on null or
\* on a missing member, #[serde(default)] gives the empty Vec on a missing
\* member, time::serde::timestamp reads whole seconds
MetaOfJson(obj) ==
    [id |-> IdOfJson(obj.id),
     name |-> obj.name.s,
     first_release_date |-> [secs |-> obj.first_release_date.n, nanos |-> 0],
     total_rating |-> IF obj.total_rating.t = "number"
                      THEN <<obj.total_rating.n>> ELSE <<>>,
     genres |-> obj.genres.a]

\* serde_metas::serialize: value.values().collect() in the iteration order
\* ord, serialized as an array
SerializeMetas(m, ord) == [i \in DOMAIN ord |-> MetaToJson(m[ord[i]])]

\* serde_metas::deserialize: the array read as a Vec<Meta>, collected into
\* the map
DeserializeMetas(array) == Collect([i \in DOMAIN array |-> MetaOfJson(array[i])])

\* the objects a meta.json may hold
JsonMetas ==
    {[id |-> JsonOfId(id),
      name |-> JsonString(nm),
      first_release_date |-> JsonNumber(ReleaseSecs),
      total_rating |-> r,
      genres |-> g] :
        id \in GameId, nm \in {"x", "y"},
        r \in {JsonAbsent, JsonNull, JsonNumber(7)},
        g \in {JsonAbsent, JsonArray(<<"rpg">>)}}

\* serde_json::from_str(&fs::read_to_string(META_FILENAME)) (data/mod.rs:
\* 272-273), of the file the process starts with or of the file just written
SerdeLoad ==
    /\ apc \in {"load", "saved"}
    /\ apc' = IF apc = "load" THEN "loaded" ELSE "reloaded"
    /\ metas' = DeserializeMetas(meta_file.vec)
    /\ UNCHANGED <<arg, rank, out>>
    /\ UNCHANGED <<fileVars, mpc, npc, lists, missing_metas>>
    /\ UNCHANGED <<igdbVars, resVars, joinVars>>

\* fs::write(META_FILENAME, serde_json::to_string_pretty(&metas))
\* (data/mod.rs:305); out keeps the store that was written, rank the order
SerdeSave ==
    /\ apc = "loaded"
    /\ apc' = "saved"
    /\ \E ord \in Orders(DOMAIN metas) :
          /\ meta_file' = [present |-> TRUE, vec |-> SerializeMetas(metas, ord)]
          /\ rank' = ord
    /\ out' = metas
    /\ UNCHANGED <<arg, list_file, template_file, env>>
    /\ UNCHANGED <<newVars, igdbVars, resVars, joinVars>>

InitSerde ==
    /\ InitNoJoin
    /\ InitIgdb("", "")
    /\ InitRes(0, 0, {}, "off")
    /\ faults = {}
    /\ res_dir = EmptyDir
    /\ list_file = <<>>
    /\ \E array \in SeqUpTo(JsonMetas, MaxJsonLen) :
          meta_file = [present |-> TRUE, vec |-> array]
    /\ template_file = Absent
    /\ env = {}
    /\ mpc = "none"
    /\ npc = "none"
    /\ lists = <<>>
    /\ metas = EmptyMetas
    /\ missing_metas = <<>>
    /\ apc = "load"
    /\ arg = FALSE
    /\ rank = <<>>
    /\ out = EmptyMetas

NextSerde == SerdeLoad \/ SerdeSave

SpecSerde == InitSerde /\ [][NextSerde]_vars

(***************************************************************************)
(* SpecRange: Data::release_date_range (data/mod.rs:407-420) called on any *)
(* store of records of RankIds, each with a first_release_date in          *)
(* 0..MaxDay.                                                              *)
(***************************************************************************)
\* a Meta with its first_release_date
DatedMeta(id, date) == [id |-> id, origin |-> "disk", first_release_date |-> date]

\* the stores of records of the ids D, every choice of dates
DatedStores(D) ==
    {[id \in D |-> DatedMeta(id, d[id])] : d \in [D -> 0..MaxDay]}

\* A search for the latest date that returns the earliest
MaxByDate_Earliest(m) ==
    IF DOMAIN m = {} THEN <<>>
    ELSE <<m[CHOOSE id \in DOMAIN m :
               \A x \in DOMAIN m :
                   m[id].first_release_date <= m[x].first_release_date]>>

\* lines 409-412: values().min_by_key(|meta| meta.first_release_date), an
\* Option<&Meta>: None on an empty map, else a record no other record is
\* earlier than
MinByDate(m) ==
    IF DOMAIN m = {} THEN <<>>
    ELSE <<m[CHOOSE id \in DOMAIN m :
               \A x \in DOMAIN m :
                   m[id].first_release_date <= m[x].first_release_date]>>

\* lines 414-417: values().max_by_key(|meta| meta.first_release_date)
MaxByDate(m) ==
    IF DOMAIN m = {} THEN <<>>
    ELSE <<m[CHOOSE id \in DOMAIN m :
               \A x \in DOMAIN m :
                   m[id].first_release_date >= m[x].first_release_date]>>

\* Data::release_date_range(): each `?` returns None
ReleaseDateRange ==
    /\ apc = "call"
    /\ apc' = "ret"
    /\ out' = IF MinByDate(metas) = <<>> THEN <<>>
              ELSE IF MaxByDate(metas) = <<>> THEN <<>>
              ELSE <<[min |-> MinByDate(metas)[1].first_release_date,
                      max |-> MaxByDate(metas)[1].first_release_date]>>
    /\ UNCHANGED <<arg, rank>>
    /\ UNCHANGED <<fileVars, newVars, igdbVars, resVars, joinVars>>

InitRange ==
    /\ InitStoreOnly
    /\ \E D \in SUBSET RankIds : metas \in DatedStores(D)
    /\ apc = "call"
    /\ arg = FALSE
    /\ rank = <<>>
    /\ out = <<>>

NextRange == ReleaseDateRange

SpecRange == InitRange /\ [][NextRange]_vars

(***************************************************************************)
(* SpecFrame: the run after Data::new has returned Ok (main.rs:58-83).     *)
(* The plots share the Data behind an Arc; they call its functions, in any *)
(* order and any number of times, and the summary calls get().  mpc names  *)
(* the function of Data a plot is calling.  A record of the store has      *)
(* every field a function of Data reads; the store holds a record for      *)
(* every item of the latest snapshot.                                      *)
(***************************************************************************)
FrameDates == 2

\* a Meta with the fields the functions of Data read
FrameMeta(id, score, date) ==
    [id |-> id, origin |-> "disk", rating |-> score, aggregated_rating |-> <<>>,
     total_rating |-> score, first_release_date |-> date,
     game_engines |-> <<[name |-> "unity", logo |-> <<UrlLogo>>]>>]

FrameStores(D) ==
    {[id \in D |-> FrameMeta(id, sc[id], d[id])] :
        sc \in [D -> {<<>>, <<1>>, <<2>>}], d \in [D -> 0..1]}

\* the functions of impl Data (data/mod.rs:319-420) that take no argument
Nullary == {"dates", "most_common", "igdb_diffs", "release_date_range"}

\* A plot calls a function of Data (plot/plots/*.rs); the result of its
\* previous call is dropped
FrameCall ==
    /\ apc # "call"
    /\ apc' = "call"
    /\ \/ mpc' \in Nullary /\ arg' = FALSE
       \/ mpc' = "extrema" /\ arg' \in BOOLEAN
       \/ mpc' = "igdb_list" /\ arg' \in RatingKind
    /\ rank' = <<>>
    /\ out' = <<>>
    /\ UNCHANGED <<npc, lists, metas, missing_metas>>
    /\ UNCHANGED <<fileVars, igdbVars, resVars, joinVars>>

\* Data::dates()
DatesCall ==
    /\ apc = "call"
    /\ apc' = "ret"
    /\ out' = DatesOf(lists)
    /\ UNCHANGED <<arg, rank>>
    /\ UNCHANGED <<fileVars, newVars, igdbVars, resVars, joinVars>>

\* The "List Toppers" (arg) and "Barrel Bottoms" (~arg) segments of the
\* summary (summary.rs:63-76, 91-104): each (id, duration) of extrema is
\* mapped through &data.metas.0[id], the Index of HashMap, which panics
\* on a key the map does not hold
ExtremaConsumer ==
    /\ mpc = "extrema"
    /\ apc = "ret"
    /\ apc' = IF \E k \in DOMAIN out : out[k].id \notin DOMAIN metas
              THEN "lookup_panic" ELSE "draw"
    /\ UNCHANGED <<arg, rank, out>>
    /\ UNCHANGED <<fileVars, newVars, igdbVars, resVars, joinVars>>

InitFrame ==
    /\ InitNoJoin
    /\ InitIgdb("", "")
    /\ InitRes(1, 1, {UrlCover, UrlLogo}, "idle")
    /\ faults = {}
    /\ res_dir = EmptyDir
    /\ \E D \in SUBSET (1..FrameDates) :
          lists \in [D -> SeqUpTo(ExtIds, MaxExtLen)]
    /\ list_file = lists
    /\ meta_file = Absent
    /\ template_file = Absent
    /\ env = {}
    /\ mpc = "plots"
    /\ npc = "ok"
    /\ HasLatest(lists)
    /\ \E D \in SUBSET ExtIds :
          /\ Range(Latest(lists)) \subseteq D
          /\ metas \in FrameStores(D)
    /\ missing_metas = <<>>
    /\ apc = "none"
    /\ arg = FALSE
    /\ rank = <<>>
    /\ out = <<>>

NextFrame ==
    \/ FrameCall
    \/ mpc = "dates" /\ DatesCall
    \/ mpc = "extrema" /\ Extrema
    \/ ExtremaConsumer
    \/ mpc = "igdb_list" /\ IgdbListCall
    \/ mpc = "most_common" /\ MostCommon
    \/ mpc = "igdb_diffs" /\ IgdbDiffs
    \/ mpc = "release_date_range" /\ ReleaseDateRange
    \/ \E c \in Tasks : GetStart(c)
    \/ \E c \in Tasks : GetSent(c)
    \/ \E c \in Tasks : GetBytes(c)

SpecFrame == InitFrame /\ [][NextFrame]_vars

(***************************************************************************)
(* Properties of reconciliation (Data::new), checked under Spec.           *)
(***************************************************************************)
\* The ids of the batch requests sent so far
BatchRequests == {i \in DOMAIN net : net[i].req.url = GamesUrl}
TokenRequests == {i \in DOMAIN net : net[i].req.url = TokenUrl}
NoTaskStarted == \A c \in Tasks : rpc[c] = "off"

C2_MissingOtherFails ==
    (/\ npc # "load"
     /\ HasLatest(lists)
     /\ \E id \in Range(Latest(lists)) : ~IsIgdb(id) /\ id \notin DOMAIN metas)
    => /\ npc \in {"reconcile", "err"}
       /\ mpc \in {"new", "exit_err"}
       /\ net = <<>>
       /\ calls = 0
       /\ fetched = EmptyFetched
       /\ NoTaskStarted

\* C2, witness: the run has ended in error on a snapshot that holds a
\* missing catalog id and a missing None id
C2_Witness ==
    /\ mpc = "exit_err"
    /\ npc = "err"
    /\ HasLatest(lists)
    /\ Latest(lists) = <<Igdb(1), None>>
    /\ metas = EmptyMetas
    /\ env = {"CLIENT_ID", "CLIENT_SECRET"}

\* C3, as stated: when Data::new has returned Ok every id of the latest
\* snapshot is a key of the store, and when it has returned Err no consumer
\* task is ever started.
C3_NoPartialSuccess ==
    /\ npc = "ok" => Range(Latest(lists)) \subseteq DOMAIN metas
    /\ npc = "err" => NoTaskStarted /\ mpc \in {"new", "exit_err"}

(***************************************************************************)
(* Properties of the catalog client (IgdbRequestor), checked under         *)
(* SpecIgdb.                                                               *)
(***************************************************************************)
LastSent == net[Len(net)]
\* the last request logged belongs to the games() call in progress
LastIsCurrent == Len(net) > 0 /\ LastSent.call = calls
\* a token exchange whose answer carried a token that could be decoded
Exchanged(j) == j \in TokenRequests /\ net[j].valid

\* C4: a request is sent a second time only as the retry of a first send
\* answered 429, by the same call, unchanged (method, url, query, headers,
\* body) and 60 seconds later; a first send answered 429 is followed by its
\* retry; no request is sent more than twice by one call; after 429 then
\* 429 games() has failed, and after 429 then 200 it has not failed at the
\* request: a batch request so answered with a decodable body makes
\* games() return Ok.
C4_RetryOnce ==
    /\ \A i \in DOMAIN net :
         /\ net[i].try = 2 =>
              /\ i > 1
              /\ net[i - 1].try = 1
              /\ net[i - 1].status = 429
              /\ net[i - 1].call = net[i].call
              /\ net[i].req = net[i - 1].req
              /\ net[i].at = net[i - 1].at + 60
         /\ net[i].try = 1 /\ net[i].status = 429 /\ i < Len(net) =>
              net[i + 1].try = 2
         /\ Cardinality({j \in DOMAIN net : /\ net[j].call = net[i].call
                                            /\ net[j].req = net[i].req}) <= 2
    /\ LastIsCurrent /\ LastSent.try = 1 /\ LastSent.status = 429 =>
         ipc \in {"sleep", "retry"}
    /\ LastIsCurrent /\ LastSent.try = 2 /\ LastSent.status = 429 =>
         ipc = "ret" /\ ~games_ret.ok
    /\ LastIsCurrent /\ LastSent.try = 2 /\ LastSent.status = 200 =>
         /\ ipc \in {"json", "exec", "ret"}
         /\ ipc = "ret" =>
              (games_ret.ok <=> LastSent.valid /\ LastSent.req.url = GamesUrl)

\* C4, witness: games() has returned Ok after its batch request was
\* answered 429 and then 200
C4_Witness ==
    /\ ipc = "ret"
    /\ games_ret.ok
    /\ Len(net) >= 2
    /\ LastSent.try = 2 /\ LastSent.status = 200
    /\ LastSent.req.url = GamesUrl /\ LastSent.req.ids # <<>>
    /\ net[Len(net) - 1].status = 429

\* C5, as stated: when the first answer to a request has a status that is
\* neither 2xx nor 429, games() has returned the error (no cooldown, no
\* second send).
C5_FatalPropagated ==
    (/\ LastIsCurrent
     /\ LastSent.try = 1
     /\ LastSent.status # NetErr
     /\ ~IsSuccess(LastSent.status)
     /\ LastSent.status # 429)
    => /\ ipc = "ret"
       /\ ~games_ret.ok
       /\ now = LastSent.at

\* C6: a cached token is never cleared or replaced, a token request is in
\* progress only while no token is cached, no token request follows an
\* exchange that yielded a token, and at most one exchange yields a token.
C6_State ==
    /\ who = "login" /\ ipc \in {"exec", "sleep", "retry", "json"} =>
         access_token = NoToken
    /\ \A i, j \in TokenRequests : j < i => ~Exchanged(j)
    /\ Cardinality({j \in TokenRequests : Exchanged(j)}) <= 1
C6_AuthenticateOnce ==
    [][/\ access_token # NoToken => access_token' = access_token
       /\ C6_State']_vars

\* C6, witness: a second games() call has sent its batch request with the
\* token the first call obtained, without a token request of its own
C6_Witness ==
    /\ calls = 2
    /\ access_token # NoToken
    /\ \E i \in BatchRequests : net[i].call = 2
    /\ \A j \in TokenRequests : net[j].call = 1

\* C7: every batch request carries the token of an exchange that was
\* answered before the batch request was sent; within one call the token
\* requests precede the batch requests; and a call whose token requests
\* yielded no token sends no batch request.
C7_AuthBeforeFetch ==
    /\ \A i \in BatchRequests :
         /\ net[i].req.bearer # NoToken
         /\ net[i].req.bearer < i
         /\ Exchanged(net[i].req.bearer)
         /\ \A j \in TokenRequests : net[j].call = net[i].call => j < i
    /\ \A k \in 1..calls :
         (/\ \E j \in TokenRequests : net[j].call = k
          /\ ~\E j \in TokenRequests : net[j].call = k /\ Exchanged(j))
         => ~\E i \in BatchRequests : net[i].call = k
    /\ who = "games" /\ ipc \in {"exec", "sleep", "retry"} =>
         access_token # NoToken /\ request.bearer = access_token

\* C7, witness: one call has exchanged a token and then sent its batch
\* request, and another call has failed at the exchange
C7_Witness ==
    /\ \E i \in BatchRequests : \E j \in TokenRequests :
         net[j].call = net[i].call /\ j < i
    /\ \E k \in 1..calls :
         /\ \E j \in TokenRequests : net[j].call = k
         /\ ~\E i \in BatchRequests : net[i].call = k
         /\ k < calls \/ ipc = "ret"

(***************************************************************************)
(* Properties of the resource cache (ResourceRequestor).                   *)
(***************************************************************************)
\* the calls of task c that downloaded url u to the end
Downloads(c, u) ==
    {i \in DOMAIN hist[c] :
        hist[c][i].url = u /\ hist[c][i].ok /\ hist[c][i].sent = 1}

\* C8 (SpecSeq): of two get() calls made one after the other for the same
\* url, the first of which returned Ok, the second returns Ok with the same
\* bytes and sends no request.
C8_CacheIdempotent ==
    \A c \in Tasks : \A i \in DOMAIN hist[c] :
        (/\ i + 1 \in DOMAIN hist[c]
         /\ hist[c][i + 1].url = hist[c][i].url
         /\ hist[c][i].ok)
        => /\ hist[c][i + 1].ok
           /\ hist[c][i + 1].bytes = hist[c][i].bytes
           /\ hist[c][i + 1].sent = 0

\* C8, witness: a download that succeeded, followed by a call for the same
\* url that was served from the file
C8_Witness ==
    \E c \in Tasks :
        /\ Len(hist[c]) >= 2
        /\ hist[c][1].ok /\ hist[c][1].sent = 1
        /\ hist[c][2].url = hist[c][1].url
        /\ hist[c][2].ok /\ hist[c][2].sent = 0
        /\ Requested(ReqUrl(hist[c][1].url)) = 1

\* C9, as stated (SpecRes): over all tasks, each url is downloaded at most
\* once.
C9_AtMostOnce ==
    \A u \in AssetUrls :
        Cardinality({ci \in Tasks \X (1..MaxGets) : ci[2] \in Downloads(ci[1], u)})
            <= 1

\* C9, amended (SpecRes): a file of the cache, once written, stays; a call
\* sends a request only if its path is not on disk when the call starts;
\* and so no task downloads the same url twice.
C9_AtMostOncePerTask ==
    [][/\ DOMAIN res_dir \subseteq DOMAIN res_dir'
       /\ \A c \in Tasks :
            /\ rpc[c] = "idle" /\ rpc'[c] \in {"acquire", "send"} =>
                 CachePath(cur'[c].url) \notin DOMAIN res_dir
            /\ \A u \in AssetUrls : Cardinality(Downloads(c, u)') <= 1]_vars

\* C9, witness: two tasks have each downloaded the same url, and one of
\* them was then served from the file
C9_Witness ==
    \E u \in AssetUrls :
        /\ Downloads(1, u) = {1}
        /\ Downloads(2, u) = {1}
        /\ Len(hist[1]) = 2
        /\ hist[1][2].url = u /\ hist[1][2].sent = 0

\* C10, as stated (SpecSem): at most 8 downloads are between the sending
\* of the request and the arrival of the last byte.
C10_AtMostEightInFlight == Cardinality(InFlight) <= 8

\* the tasks that hold a permit: they are awaiting request.send()
Holders == {c \in Tasks : rpc[c] = "send"}
\* the call that task c has just completed
Last(c) == hist[c][Len(hist[c])]
Returns(c) == Len(hist'[c]) = Len(hist[c]) + 1

\* C11 (SpecSem): every permit that is not free is held by a task awaiting
\* send(); a task that has its response and goes on to receive the body
\* and write the file holds none, and its write neither takes nor frees a
\* permit: while fewer than 8 tasks await send(), a permit is free whatever
\* number of tasks are writing.
C11_NoPermitWhileWriting ==
    [][/\ (sem + Cardinality(Holders) = MAX_CONNECTIONS)'
       /\ \A c \in Tasks :
            rpc[c] = "bytes" /\ rpc'[c] # "bytes" =>
                /\ sem' = sem
                /\ c \notin Holders
                /\ Cardinality(Holders) < MAX_CONNECTIONS => sem > 0]_vars

\* C11, witness: one task has written its file while the 8 permits are
\* all held by the other tasks
C11_Witness ==
    /\ \E c \in Tasks :
         /\ hist[c] # <<>> /\ Last(c).why = "ok"
         /\ CachePath(Last(c).url) \in DOMAIN res_dir
    /\ Cardinality(Holders) = MAX_CONNECTIONS
    /\ sem = 0

\* C12 (SpecCaller): a call whose request is answered with a 4xx or 5xx
\* status returns Err and writes nothing, the derived path does not exist
\* when it returns, and the next call for the same url sends a request.
C12_NoNegativeCaching ==
    [][\A c \in Tasks :
         /\ Returns(c) /\ Last(c)'.why = "status" =>
              /\ ~Last(c)'.ok
              /\ res_dir' = res_dir
              /\ CachePath(Last(c)'.url) \notin DOMAIN res_dir'
         /\ (/\ hist[c] # <<>>
             /\ Last(c).why = "status"
             /\ Returns(c)
             /\ Last(c)'.url = Last(c).url) => Last(c)'.sent = 1]_vars

\* C12, witness: a download failed on its status and the next call for the
\* same url sent a second request, which succeeded
C12_Witness ==
    \E c \in Tasks :
        /\ Len(hist[c]) = 2
        /\ hist[c][1].why = "status"
        /\ hist[c][2].url = hist[c][1].url
        /\ hist[c][2].why = "ok"
        /\ Requested(ReqUrl(hist[c][1].url)) = 2

\* C13 (SpecRes): when get() returns Ok after a download, the derived path
\* exists and holds the bytes returned; when the write fails get() returns
\* Err and no bytes.
C13_WrittenBeforeReturned ==
    [][\A c \in Tasks :
         Returns(c) =>
            /\ Last(c)'.ok /\ Last(c)'.sent = 1 =>
                 /\ CachePath(Last(c)'.url) \in DOMAIN res_dir'
                 /\ res_dir'[CachePath(Last(c)'.url)] = Last(c)'.bytes
            /\ Last(c)'.why = "write" =>
                 ~Last(c)'.ok /\ Last(c)'.bytes = NoBytes]_vars

\* C13, witness: one task has got the bytes it downloaded, which are in
\* the file, and another task's write has failed
C13_Witness ==
    /\ \E c \in Tasks :
         /\ hist[c] # <<>> /\ Last(c).why = "ok"
         /\ res_dir[CachePath(Last(c).url)] = Last(c).bytes
    /\ \E c \in Tasks : hist[c] # <<>> /\ Last(c).why = "write"

(***************************************************************************)
(* Properties of the metadata store (Data::new), checked under Spec.       *)
(***************************************************************************)
\* the file holds each record of the store once and nothing else
HoldsStore(file, m) ==
    /\ file.present
    /\ Len(file.vec) = Cardinality(DOMAIN m)
    /\ Collect(file.vec) = m
\* games() has returned Ok and Data::new is about to merge
FetchReturnedOk == npc = "await" /\ ipc = "ret" /\ games_ret.ok

\* C14, as stated: once loaded, the store never loses a key and the record
\* of a key never changes.
C14_AppendOnly ==
    [][npc # "load" =>
         /\ DOMAIN metas \subseteq DOMAIN metas'
         /\ \A id \in DOMAIN metas : metas'[id] = metas[id]]_vars

\* C15, as stated: when Data::new has returned Ok, meta.json exists and
\* holds the complete store.
C15_RewrittenAlways == npc = "ok" => HoldsStore(meta_file, metas)

\* C15, amended: meta.json is written by Data::new only when load seeds it
\* from the template and when a fetch has returned Ok; every successful
\* fetch is followed at once by a rewrite with the complete merged store;
\* a reconciliation that finds nothing missing leaves the file as load
\* left it.
C15_RewrittenAfterFetch ==
    [][/\ meta_file' # meta_file =>
            \/ npc = "load" /\ ~meta_file.present /\ meta_file' = template_file
            \/ FetchReturnedOk /\ HoldsStore(meta_file', metas')
       /\ FetchReturnedOk /\ npc' # npc =>
            npc' = "ok" /\ HoldsStore(meta_file', metas')
       /\ npc = "reconcile" /\ npc' = "ok" => meta_file' = meta_file]_vars

\* C15, witness: Data::new has returned Ok after a fetch, and meta.json
\* holds the record that was on disk and the record that was fetched
C15_Witness ==
    /\ npc = "ok"
    /\ games_ret.ok /\ calls = 1
    /\ Cardinality(DOMAIN metas) = 2
    /\ HoldsStore(meta_file, metas)
    /\ \E i \in DOMAIN meta_file.vec : meta_file.vec[i].origin = "api"
    /\ \E i \in DOMAIN meta_file.vec : meta_file.vec[i].origin = "disk"

\* C16: load leaves list.json and the template alone; with a cache it
\* loads the store from the cache and leaves the cache alone; with no cache
\* and a template it makes the cache a copy of the template and loads the
\* store from it; with neither the store is empty and no cache is made.
C16_Load ==
    [][npc = "load" /\ npc' # "load" =>
         /\ template_file' = template_file
         /\ list_file' = list_file
         /\ meta_file.present =>
              meta_file' = meta_file /\ metas' = Collect(meta_file.vec)
         /\ ~meta_file.present /\ template_file.present =>
              meta_file' = template_file /\ metas' = Collect(template_file.vec)
         /\ ~meta_file.present /\ ~template_file.present =>
              meta_file' = Absent /\ metas' = EmptyMetas]_vars

\* C16, witness: the store was loaded from a cache that differs from the
\* template, and the cache is still there
C16_Witness ==
    /\ npc = "reconcile"
    /\ meta_file.present /\ template_file.present
    /\ meta_file.vec # <<>> /\ template_file.vec # <<>>
    /\ meta_file # template_file
    /\ metas = Collect(meta_file.vec)

\* C17: a consumer task exists only once Data::new has returned Ok, after
\* which the store, the lists and meta.json stay as they are; once the
\* store is loaded, it and meta.json change only in the step that follows
\* the return of games() with Ok; when Data::new has failed no task is
\* ever started.
C17_SequenceBeforeConsumers ==
    [][/\ (\E c \in Tasks : rpc[c] # "off") =>
            /\ npc = "ok" /\ mpc = "plots"
            /\ UNCHANGED <<npc, mpc, lists, metas, meta_file>>
       /\ (\E c \in Tasks : rpc'[c] # "off") => npc' = "ok"
       /\ npc # "load" /\ (metas' # metas \/ meta_file' # meta_file) =>
            FetchReturnedOk
       /\ npc = "err" => NoTaskStarted' /\ npc' = "err"]_vars

\* C17, witness: a consumer task has completed a download in a run whose
\* store was filled by a fetch
C17_Witness ==
    /\ npc = "ok" /\ mpc = "plots"
    /\ calls = 1 /\ games_ret.ok
    /\ \E c \in Tasks : hist[c] # <<>> /\ Last(c).why = "ok"

(***************************************************************************)
(* Properties of join_local, checked under SpecJoin.                       *)
(***************************************************************************)
\* C18: when join_local has returned Ok every task of the group has
\* returned Ok and was joined; when it has returned Err the error is that
\* of the first failed task that join_next() yielded: that task was
\* joined last, and every task joined before it had returned Ok; so a
\* group with a failed task never reports success.
C18_AllOrNothing ==
    join_ret.done =>
        IF join_ret.ok
          THEN /\ \A c \in Tasks : rpc[c] = "done"
               /\ {joined[i] : i \in DOMAIN joined} = Tasks
          ELSE /\ joined # <<>>
               /\ join_ret.task = joined[Len(joined)]
               /\ rpc[join_ret.task] = "failed"
               /\ join_ret.why = Last(join_ret.task).why
               /\ \A i \in 1..(Len(joined) - 1) : rpc[joined[i]] = "done"

\* C18, witness: two tasks had failed; join_local returned the error of
\* the one that join_next() yielded first, after the result of a task
\* that had returned Ok
C18_Witness ==
    /\ join_ret.done /\ ~join_ret.ok
    /\ Len(joined) = 2
    /\ rpc[joined[1]] = "done"
    /\ \E c \in Tasks : c # join_ret.task /\ rpc[c] = "failed"

(***************************************************************************)
(* Properties of Data::extrema, checked under SpecExtrema.                 *)
(***************************************************************************)
\* the intervals (numbered by their earlier date's rank) at whose start id
\* is at the top (or at the bottom) of the snapshot
HeldBy(ls, top, id) ==
    {i \in 1..(Cardinality(DOMAIN ls) - 1) :
        /\ ls[DatesOf(ls)[i]] # <<>>
        /\ Extremum(ls[DatesOf(ls)[i]], top) = id}

RECURSIVE SumOfGaps(_, _)
SumOfGaps(ls, I) ==
    IF I = {} THEN 0
    ELSE LET i == CHOOSE x \in I : TRUE
         IN (DatesOf(ls)[i + 1] - DatesOf(ls)[i]) + SumOfGaps(ls, I \ {i})

\* the result lists exactly the ids that held the extremum at the start of
\* some interval, each once, with the sum of its intervals, durations not
\* increasing
ExtremaAsStated ==
    /\ {out[k].id : k \in DOMAIN out} =
           {id \in ExtIds : HeldBy(lists, arg, id) # {}}
    /\ \A j, k \in DOMAIN out : out[j].id = out[k].id => j = k
    /\ \A k \in DOMAIN out :
           out[k].duration = SumOfGaps(lists, HeldBy(lists, arg, out[k].id))
    /\ \A j, k \in DOMAIN out : j < k => out[j].duration >= out[k].duration

\* C19, as stated: for every history, extrema(top) returns, and what it
\* returns lists exactly the items that were at the top (or at the bottom)
\* at the start of some interval, each with the sum of its intervals,
\* sorted by duration descending.
C19_Extrema == apc # "call" => apc = "ret" /\ ExtremaAsStated

(***************************************************************************)
(* Properties of Data::igdb_diffs, checked under SpecDiffs.                *)
(***************************************************************************)
\* C20: when every record of the total-rating ranking is in the latest
\* snapshot, igdb_diffs returns one entry per record of the ranking, whose
\* value is the (first) position of the record's id in the latest snapshot
\* minus the record's position in the ranking, the values not decreasing.
C20_RankDiffs ==
    (/\ apc = "ret"
     /\ HasLatest(lists)
     /\ \A k \in DOMAIN rank :
          \E p \in DOMAIN Latest(lists) : Latest(lists)[p] = rank[k].meta.id)
    => /\ out.some
       /\ Len(out.vec) = Len(rank)
       /\ \A k \in DOMAIN rank :
            \E j \in DOMAIN out.vec :
               /\ out.vec[j].meta = rank[k].meta
               /\ \E p \in DOMAIN Latest(lists) :
                    /\ Latest(lists)[p] = rank[k].meta.id
                    /\ \A q \in 1..(p - 1) : Latest(lists)[q] # rank[k].meta.id
                    /\ out.vec[j].diff = (p - 1) - (k - 1)
       /\ \A i, j \in DOMAIN out.vec : i < j => out.vec[i].diff <= out.vec[j].diff

\* C20, witness: the ranking is [1, 2, 3], the latest snapshot [2, 1, 3],
\* and the result [(-1, 2), (0, 3), (1, 1)]
C20_Witness ==
    /\ apc = "ret"
    /\ HasLatest(lists)
    /\ Latest(lists) = <<Igdb(2), Igdb(1), Igdb(3)>>
    /\ [k \in DOMAIN rank |-> rank[k].meta.id] = <<Igdb(1), Igdb(2), Igdb(3)>>
    /\ out.some
    /\ [k \in DOMAIN out.vec |-> out.vec[k].diff] = <<-1, 0, 1>>
    /\ [k \in DOMAIN out.vec |-> out.vec[k].meta.id] = <<Igdb(2), Igdb(3), Igdb(1)>>

\* C21: igdb_diffs returns absent exactly when the snapshot history is empty
\* or some store record with a total rating is not in the latest snapshot;
\* a present result has one entry per rated record, none skipped; and the
\* summary segment that asked for the differences ends with an error exactly
\* when the result is absent.
RatedIds == {id \in DOMAIN metas : metas[id].total_rating # <<>>}

C21_CorrectnessGate ==
    apc # "call" =>
      /\ ~out.some <=>
            \/ lists = <<>>
            \/ \E id \in RatedIds :
                   \A p \in DOMAIN lists[Len(lists)] :
                       lists[Len(lists)][p] # id
      /\ out.some =>
            {out.vec[k].meta.id : k \in DOMAIN out.vec} = RatedIds
      /\ out.some => Len(out.vec) = Cardinality(RatedIds)
      /\ apc # "ret" => (apc = "err" <=> ~out.some)

\* A latest snapshot that holds one rated record and lacks another: no
\* partial ranking comes back and the segment has failed.
C21_Witness ==
    /\ apc = "err"
    /\ lists # <<>>
    /\ \E id \in RatedIds : id \in Range(Latest(lists))
    /\ \E id \in RatedIds : id \notin Range(Latest(lists))
    /\ ~out.some

\* C22: igdb_list(kind) lists exactly the store records that have the
\* rating the kind selects (user: rating, critic: aggregated_rating, total:
\* total_rating), each once and paired with that value, the values never
\* increasing; a record without the selected rating is not listed.
Selected(meta) ==
    IF arg = "User" THEN meta.rating
    ELSE IF arg = "Critic" THEN meta.aggregated_rating
    ELSE meta.total_rating

C22_RankedByKind ==
    apc = "ret" =>
      /\ {rank[k].meta : k \in DOMAIN rank} =
            {metas[id] : id \in {x \in DOMAIN metas : Selected(metas[x]) # <<>>}}
      /\ \A i, j \in DOMAIN rank : rank[i].meta = rank[j].meta => i = j
      /\ \A k \in DOMAIN rank : <<rank[k].rating>> = Selected(rank[k].meta)
      /\ \A k \in DOMAIN rank : k > 1 => rank[k - 1].rating >= rank[k].rating

\* A user ranking of a store where one record has no user rating but has
\* the other two, and two listed records have different user ratings.
C22_Witness ==
    /\ apc = "ret"
    /\ arg = "User"
    /\ Len(rank) = 2
    /\ rank[1].rating > rank[2].rating
    /\ rank[1].meta.total_rating # rank[1].meta.rating
    /\ \E id \in DOMAIN metas :
          /\ metas[id].rating = <<>>
          /\ metas[id].total_rating # <<>>
          /\ metas[id].aggregated_rating # <<>>

\* C23: most_common has exactly one entry per distinct key among the
\* flattened elements; the entry's count is the number of flattened
\* elements with that key; its representative is one of those elements;
\* the counts never increase along the result; and when no record has an
\* element the result is empty.
Occurrences ==
    {x \in (DOMAIN metas) \X (1..MaxEngines) :
        x[2] \in DOMAIN metas[x[1]].game_engines}

ElementAt(x) == metas[x[1]].game_engines[x[2]]

C23_MostCommon ==
    apc = "ret" =>
      /\ \A x \in Occurrences :
            \E k \in DOMAIN rank : rank[k].value.name = ElementAt(x).name
      /\ \A i, j \in DOMAIN rank :
            rank[i].value.name = rank[j].value.name => i = j
      /\ \A k \in DOMAIN rank :
            /\ \E x \in Occurrences : ElementAt(x) = rank[k].value
            /\ rank[k].count =
                 Cardinality({x \in Occurrences :
                                 ElementAt(x).name = rank[k].value.name})
      /\ \A k \in DOMAIN rank : k > 1 => rank[k - 1].count >= rank[k].count
      /\ Occurrences = {} => rank = <<>>

\* Two keys with different counts, the more frequent one occurring in two
\* records with different logos.
C23_Witness ==
    /\ apc = "ret"
    /\ Len(rank) = 2
    /\ rank[1].count = 3
    /\ rank[2].count = 1
    /\ \E x \in Occurrences :
          /\ ElementAt(x).name = rank[1].value.name
          /\ ElementAt(x) # rank[1].value

\* A store whose records have no element: the result is the empty list.
C23_WitnessEmpty ==
    /\ apc = "ret"
    /\ DOMAIN metas # {}
    /\ Occurrences = {}
    /\ rank = <<>>

\* C24: a store written to its list form and read back has the same keys
\* and, under every key, a record with the same value in every field,
\* whatever the order in which the records were written.
C24_RoundTrip ==
    apc = "reloaded" =>
      /\ DOMAIN metas = DOMAIN out
      /\ \A id \in DOMAIN out :
            /\ metas[id].id = out[id].id
            /\ metas[id].name = out[id].name
            /\ metas[id].first_release_date = out[id].first_release_date
            /\ metas[id].total_rating = out[id].total_rating
            /\ metas[id].genres = out[id].genres

\* A store of three records, one of each kind of identity, with and
\* without a rating and genres, written in an order that is not the order
\* of the file it was read from, and read back.
C24_Witness ==
    /\ apc = "reloaded"
    /\ DOMAIN out = GameId
    /\ \E id \in GameId : out[id].total_rating = <<>> /\ out[id].genres = <<>>
    /\ \E id \in GameId : out[id].total_rating # <<>> /\ out[id].genres # <<>>
    /\ rank # <<Igdb(1), Other("a"), None>>
    /\ meta_file.vec[1].id = JsonNull

\* C25: when the list on disk holds several records of one identity, the
\* load succeeds, the store's keys are the distinct identities of the
\* list, and each identity is mapped to the last record of the list that
\* carries it.
C25_LastWriteWins ==
    apc = "loaded" =>
      /\ DOMAIN metas = {MetaOfJson(meta_file.vec[i]).id : i \in DOMAIN meta_file.vec}
      /\ \A i \in DOMAIN meta_file.vec :
            (\A j \in DOMAIN meta_file.vec :
                j > i => meta_file.vec[j].id # meta_file.vec[i].id)
            => metas[MetaOfJson(meta_file.vec[i]).id] = MetaOfJson(meta_file.vec[i])

\* Three records of one identity, the last unlike the first two: the
\* store has that one key and holds the last record.
C25_Witness ==
    /\ apc = "loaded"
    /\ Len(meta_file.vec) = 3
    /\ meta_file.vec[1].id = meta_file.vec[2].id
    /\ meta_file.vec[2].id = meta_file.vec[3].id
    /\ meta_file.vec[1] # meta_file.vec[3]
    /\ meta_file.vec[2] # meta_file.vec[3]
    /\ Cardinality(DOMAIN metas) = 1
    /\ \A id \in DOMAIN metas : metas[id] = MetaOfJson(meta_file.vec[3])

\* C29: every key of the store is the identity embedded in the record it
\* maps to, after the load and after the merge of the fetched records.
C29_KeyIsIdentity ==
    \A id \in DOMAIN metas : metas[id].id = id

\* After a merge: a record read from disk and a fetched record, each under
\* its own identity.
C29_Witness ==
    /\ npc = "ok"
    /\ games_ret.ok
    /\ \E id \in DOMAIN metas : metas[id].origin = "api" /\ metas[id].id = id
    /\ \E id \in DOMAIN metas : metas[id].origin # "api" /\ metas[id].id = id

\* C26: release_date_range returns absent exactly when the store is empty;
\* otherwise it returns the earliest and the latest release timestamp of
\* the store's records: both are some record's timestamp, no record is
\* earlier than the first or later than the second, and the first is not
\* after the second.
C26_ReleaseDateRange ==
    apc = "ret" =>
      /\ out = <<>> <=> DOMAIN metas = {}
      /\ out # <<>> =>
            /\ \E id \in DOMAIN metas : metas[id].first_release_date = out[1].min
            /\ \E id \in DOMAIN metas : metas[id].first_release_date = out[1].max
            /\ \A id \in DOMAIN metas :
                  /\ out[1].min <= metas[id].first_release_date
                  /\ metas[id].first_release_date <= out[1].max
            /\ out[1].min <= out[1].max

\* Three records with three different dates, the range running from the
\* earliest to the latest.
C26_Witness ==
    /\ apc = "ret"
    /\ DOMAIN metas = RankIds
    /\ \A x, y \in RankIds :
          x # y => metas[x].first_release_date # metas[y].first_release_date
    /\ out # <<>>
    /\ out[1].min < out[1].max

\* One of the two credential variables is not set
CredentialAbsent == env # {"CLIENT_ID", "CLIENT_SECRET"}

\* No request of any kind has been made: none to the catalog (token
\* exchange, batch fetch), none for an asset
NoNetworkActivity ==
    /\ net = <<>>
    /\ \A r \in DOMAIN fetched : fetched[r] = 0
    /\ \A c \in Tasks : cur[c] = NoCall /\ hist[c] = <<>>

\* C27, as stated: when a credential variable is absent the run does not
\* get past Data::new and no network request of any kind is made.
C27_CredentialsFatal ==
    CredentialAbsent => mpc # "plots" /\ npc # "ok" /\ NoNetworkActivity

\* C27, amended: the credentials are read only when reconciliation has
\* found items to fetch.  With a credential variable absent no request is
\* ever made to the catalog, and once items are found missing Data::new
\* fails, main exits with the error and no request of any kind is made.
C27_CredentialsFatalWhenFetching ==
    CredentialAbsent =>
      /\ net = <<>>
      /\ calls = 0
      /\ missing_metas # <<>> =>
            /\ npc \in {"fetch", "err"}
            /\ mpc \in {"new", "exit_err"}
            /\ NoTaskStarted
            /\ NoNetworkActivity

\* Items are missing, the secret is not set: main has exited with the
\* error and nothing was requested.
C27_Witness ==
    /\ env = {"CLIENT_ID"}
    /\ missing_metas # <<>>
    /\ npc = "err"
    /\ mpc = "exit_err"
    /\ NoNetworkActivity

\* C28: once Data::new has returned, no call of a function of Data (dates,
\* extrema, igdb_list, most_common, igdb_diffs, release_date_range) and no
\* step of get() changes the snapshot history or the metadata store; the
\* history as read from list.json is not changed either.
C28_ReadOnlyAfterReconciliation ==
    [][/\ lists' = lists
       /\ metas' = metas
       /\ list_file' = list_file]_vars

\* A ranking has been computed from a store of two records and a get() has
\* downloaded an asset; history and store are those Data::new returned.
C28_Witness ==
    /\ mpc = "igdb_diffs"
    /\ apc = "ret"
    /\ out.some
    /\ Len(out.vec) = 2
    /\ \E c \in Tasks : hist[c] # <<>> /\ hist[c][1].ok /\ hist[c][1].sent = 1
    /\ lists = list_file
    /\ DOMAIN metas = ExtIds

\* C28, during Data::new (Spec): the history read from list.json is never
\* changed, neither the file nor, once loaded, the value held by Data.
C28_HistoryNeverModified ==
    [][/\ list_file' = list_file
       /\ npc # "load" => lists' = lists
       /\ npc \in {"ok", "err"} => metas' = metas]_vars

\* C30 (SpecSeq): a get() served from the cache, after a download that
\* wrote the file it reads, returns the bytes of its own rewritten url; and
\* two urls that get() was called with and whose rewritten urls differ
\* have different cache paths.
C30_HitReturnsOwnDownload ==
    \A c \in Tasks : \A i, j \in DOMAIN hist[c] :
        /\ (/\ i < j
            /\ hist[c][i].ok /\ hist[c][i].sent = 1
            /\ hist[c][j].why = "hit"
            /\ CachePath(hist[c][i].url) = CachePath(hist[c][j].url))
           => hist[c][j].bytes = Content(ReqUrl(hist[c][j].url))
        /\ ReqUrl(hist[c][i].url) # ReqUrl(hist[c][j].url)
           => CachePath(hist[c][i].url) # CachePath(hist[c][j].url)

\* C31 (SpecFrame): after a successful reconciliation every item returned
\* by extrema(top) has a record in the store, and the lookup of the
\* segment that consumes the result does not fail.
C31_ExtremaHaveRecords ==
    mpc = "extrema" /\ apc \in {"ret", "draw", "lookup_panic"} =>
      /\ \A k \in DOMAIN out : out[k].id \in DOMAIN metas
      /\ apc # "lookup_panic"

\* the get() calls that are inside the gated step: the permit is taken and
\* request.send() has not returned
InGatedStep == {c \in Tasks : rpc[c] = "send"}

\* no get() call is in progress
AllFinished == \A c \in Tasks : rpc[c] \notin {"acquire", "send", "bytes"}

\* C32 (SpecRes): in every state the free permits and the calls inside the
\* gated step add up to 8, and 8 permits are free when no call is in
\* progress; every call that leaves the gated step gives its permit back,
\* whether send() failed, the status was an error, or the response is good.
C32_NoPermitLeak ==
    /\ [](/\ sem + Cardinality(InGatedStep) = MAX_CONNECTIONS
          /\ AllFinished => sem = MAX_CONNECTIONS)
    /\ [][\A c \in Tasks :
            c \in InGatedStep /\ rpc'[c] # "send" =>
                /\ sem' = sem + 1
                /\ rpc'[c] \in {"bytes", "failed"}
                /\ rpc'[c] = "failed" =>
                      hist'[c][Len(hist'[c])].why \in {"transport", "status"}]_vars

\* No call is in progress, one call has ended on a transport failure,
\* one on an error status and one has downloaded its file: 8 permits are
\* free.
C32_Witness ==
    /\ AllFinished
    /\ sem = MAX_CONNECTIONS
    /\ \E c \in Tasks : \E i \in DOMAIN hist[c] : hist[c][i].why = "transport"
    /\ \E c \in Tasks : \E i \in DOMAIN hist[c] : hist[c][i].why = "status"
    /\ \E c \in Tasks : \E i \in DOMAIN hist[c] : hist[c][i].why = "ok"

\* the sum of the durations of a result of extrema
RECURSIVE SumDurations(_)
SumDurations(v) ==
    IF v = <<>> THEN 0 ELSE Head(v).duration + SumDurations(Tail(v))

\* the time between the earliest and the latest date of a history
Span(ls) ==
    IF DOMAIN ls = {} THEN 0
    ELSE (CHOOSE d \in DOMAIN ls : \A e \in DOMAIN ls : e <= d)
         - (CHOOSE d \in DOMAIN ls : \A e \in DOMAIN ls : d <= e)

\* C33 (SpecExtrema): on a history whose snapshots are all non-empty,
\* extrema(top) returns and its durations add up to the time between the
\* earliest and the latest date; on a history of fewer than two dates it
\* returns the empty list.
C33_DurationsSumToSpan ==
    apc # "call" =>
      /\ (\A d \in DOMAIN lists : lists[d] # <<>>) =>
            /\ apc = "ret"
            /\ SumDurations(out) = Span(lists)
      /\ Cardinality(DOMAIN lists) < 2 => apc = "ret" /\ out = <<>>

\* Three intervals of different lengths, the item at the extremum of the
\* first also at the extremum of the third: two entries, adding up to the
\* whole span.
C33_Witness ==
    /\ apc = "ret"
    /\ DOMAIN lists = {1, 2, 3, 4}
    /\ \A d \in DOMAIN lists : lists[d] # <<>>
    /\ Extremum(lists[1], arg) = Extremum(lists[3], arg)
    /\ Extremum(lists[1], arg) # Extremum(lists[2], arg)
    /\ Len(out) = 2
    /\ out[1].duration = 2 /\ out[2].duration = 1
    /\ SumDurations(out) = 3

\* the answer to the request sent in this step, if one was sent
Answered(st) == Len(net') = Len(net) + 1 /\ net'[Len(net')].status = st

\* this step ends a token exchange in one of the ways it can fail: an
\* error status that is not retried, a retry that fails, or a response
\* that cannot be decoded
ExchangeFails ==
    /\ who = "login"
    /\ \/ ipc = "exec" /\ Answered(500)
       \/ ipc = "retry" /\ (Answered(NetErr) \/ Answered(429) \/ Answered(500))
       \/ ipc = "json" /\ ~resp.body.valid

\* C34 (SpecIgdb): the token field changes only when login() has decoded
\* the response to a token request, from absent to the token of that
\* response; a token exchange that fails leaves the field absent and makes
\* games() return the error; and a games() call that finds the field
\* absent starts with a token request.
C34_TokenOnlyOnSuccess ==
    [][/\ access_token' # access_token =>
            /\ access_token = NoToken
            /\ who = "login" /\ ipc = "json"
            /\ resp.body.valid /\ ~IsClientOrServerError(resp.status)
            /\ access_token' = resp.body.token
            /\ net[Len(net)].req.url = TokenUrl
       /\ ExchangeFails =>
            /\ access_token = NoToken /\ access_token' = NoToken
            /\ ipc' = "ret"
            /\ games_ret' = Err
       /\ calls' = calls + 1 /\ access_token = NoToken =>
            /\ who' = "login"
            /\ ipc' = "exec"
            /\ request'.url = TokenUrl]_vars

\* The first call's exchange was rate limited and its retry failed; the
\* second call asked for a token again, and got an answer that cannot be
\* decoded: both calls returned the error, no batch request was sent and
\* no token is cached.
C34_Witness ==
    /\ calls = 2
    /\ ipc = "ret"
    /\ games_ret = Err
    /\ access_token = NoToken
    /\ Len(net) = 3
    /\ \A i \in DOMAIN net : net[i].req.url = TokenUrl
    /\ net[1].call = 1 /\ net[1].status = TOO_MANY_REQUESTS
    /\ net[2].call = 1 /\ net[2].try = 2 /\ net[2].status = 500
    /\ net[3].call = 2 /\ net[3].status = 200 /\ ~net[3].valid

====
